---------------------------- MODULE Spec2Model ----------------------------
(***************************************************************************)
(* A model of the search-ui-backend retrieval layer:                       *)
(*   elasticsearch_service.py  index gateway, hybrid_search, index_note    *)
(*   notes_service.py          get_note / save_note / delete_note          *)
(*   chat_service.py           agent_generate_queries, chat_with_ai        *)
(*   main.py                   search_cards, save_card_note                *)
(*                                                                         *)
(* Text is a sequence of symbols: " " is a whitespace character, every     *)
(* other symbol stands for a run of non-whitespace characters.  Ids are    *)
(* TLA+ strings, built with \o as the f-strings of the source build them.  *)
(* The search engine, the LLM and the web search are collaborators: what   *)
(* they answer is chosen nondeterministically from small sets.             *)
(***************************************************************************)
EXTENDS Integers, Sequences, FiniteSets, TLC

VARIABLES
    esUp,        \* the engine answers es.info()/es.ping()
    exists,      \* the indices that exist (es.indices.exists)
    companies,   \* INDEX_COMPANIES: id -> document
    persons,     \* INDEX_PERSONS:   id -> document
    notes,       \* INDEX_NOTES:     id -> document
    documents,   \* INDEX_DOCUMENTS: id -> chunk document
    idx,         \* the last index-gateway / notes-service call and its return
    hs,          \* the last hybrid_search call: inputs, engine answer, return
    sr,          \* the last search_standard_tables / search_cards call
    chat,        \* the last chat_with_ai call
    upload,      \* the upload statuses and the upload_file request under way
    cache        \* the data files and the caches of the three loaders

vars == <<esUp, exists, companies, persons, notes, documents, idx, hs, sr, chat,
          upload, cache>>

\* the four indices
stores == <<companies, persons, notes, documents>>

\* what the index gateway and the notes service leave alone
NotIndex == <<hs, sr, chat, upload, cache>>

\* what hybrid_search leaves alone
NotHybrid == <<idx, sr, chat, upload, cache>>

----------------------------------------------------------------------------
(* Bounds of the model *)

MaxHits == 2        \* hits in one engine response
MaxScore == 2       \* relevance scores are 1..MaxScore
MaxLimit == 2       \* hybrid_search's limit is 1..MaxLimit

----------------------------------------------------------------------------
(* Python values *)

\* None, and the value of a missing key read with dict.get(key)
PyNone == "<None>"

\* bool(x) of a string or None
Truthy(x) == x # PyNone /\ x # ""

Min(a, b) == IF a <= b THEN a ELSE b

\* the symbols str.strip() removes
Whitespace == {" ", "\n"}

RECURSIVE lstrip(_)
lstrip(s) ==
    IF s = <<>> THEN <<>>
    ELSE IF Head(s) \in Whitespace THEN lstrip(Tail(s)) ELSE s

RECURSIVE rstrip(_)
rstrip(s) ==
    IF s = <<>> THEN <<>>
    ELSE IF s[Len(s)] \in Whitespace THEN rstrip(SubSeq(s, 1, Len(s) - 1)) ELSE s

\* str.strip()
strip(s) == rstrip(lstrip(s))

\* sep.join(parts) for a list of texts
RECURSIVE join(_, _)
join(sep, parts) ==
    IF parts = <<>> THEN <<>>
    ELSE IF Len(parts) = 1 THEN parts[1]
    ELSE parts[1] \o sep \o join(sep, Tail(parts))

\* seq[:n]
Take(seq, n) == SubSeq(seq, 1, Min(n, Len(seq)))

----------------------------------------------------------------------------
(* The indices *)

INDEX_COMPANIES == "companies"
INDEX_PERSONS == "persons"
INDEX_NOTES == "notes"
INDEX_DOCUMENTS == "documents"
ALL_INDICES == <<INDEX_COMPANIES, INDEX_PERSONS, INDEX_NOTES, INDEX_DOCUMENTS>>

\* the card ids of the model
CardIds == {"c1", "p1"}

----------------------------------------------------------------------------
(* hybrid_search: grouping of chunk hits by card_id *)

Scores == 1..MaxScore

\* One hit of the documents index: the chunk's id, its card and its _score.
\* The i-th hit of a response is chunk i: distinct documents of the index.
HitsOf(f) == [i \in DOMAIN f |-> [id |-> i, card_id |-> f[i][1], score |-> f[i][2]]]

\* The responses es.search may give.  The engine is a collaborator: the model
\* does not assume that it honours "size" or any order of the hits.
Responses == UNION {{HitsOf(f) : f \in [1..n -> CardIds \X Scores]} : n \in 0..MaxHits}

\* card_results had the loop kept the first hit of a card (no replacement)
RECURSIVE card_results_keep_first(_)
card_results_keep_first(all_results) ==
    IF all_results = <<>> THEN <<>>
    ELSE LET n == Len(all_results)
             before == card_results_keep_first(SubSeq(all_results, 1, n - 1))
             result == all_results[n]
         IN IF \E i \in DOMAIN before : before[i].card_id = result.card_id
            THEN before ELSE Append(before, result)

\* card_results after the grouping loop, as the list of its values in
\* insertion order (a dict keeps the position of a key whose value is replaced)
RECURSIVE card_results(_)
card_results(all_results) ==
    IF all_results = <<>> THEN <<>>
    ELSE LET n == Len(all_results)
             before == card_results(SubSeq(all_results, 1, n - 1))
             result == all_results[n]
             at == {i \in DOMAIN before : before[i].card_id = result.card_id}
         IN IF at = {} THEN Append(before, result)
            ELSE [i \in DOMAIN before |->
                    IF i \in at /\ result.score > before[i].score
                    THEN result ELSE before[i]]

\* list.sort(key=score, reverse=True): stable, descending
RECURSIVE sort_by_score(_)
sort_by_score(results) ==
    IF results = <<>> THEN <<>>
    ELSE LET n == Len(results)
             sorted == sort_by_score(SubSeq(results, 1, n - 1))
             x == results[n]
             \* x goes after every entry whose score is >= its own
             k == Cardinality({i \in DOMAIN sorted : sorted[i].score >= x.score})
         IN SubSeq(sorted, 1, k) \o <<x>> \o SubSeq(sorted, k + 1, Len(sorted))

\* the value returned had the hits been cut to the limit before the grouping
aggregated_results_cut_first(all_results, limit) ==
    sort_by_score(card_results(Take(all_results, limit)))

\* The value hybrid_search returns for the hits it collected
aggregated_results(all_results, limit) ==
    Take(sort_by_score(card_results(all_results)), limit)


----------------------------------------------------------------------------
(* The engine *)

\* The outcomes of es.search(index=index, ...): it raises when the engine is
\* unreachable or the index is missing, and it may raise at any time (a
\* timeout); otherwise it answers with hits.
EsSearch(index, responses) ==
    {[raised |-> TRUE, hits |-> <<>>]}
    \cup (IF esUp /\ index \in exists
          THEN {[raised |-> FALSE, hits |-> r] : r \in responses}
          ELSE {})

\* check_elasticsearch_connection(): es.info(), then es.ping() as fallback
check_elasticsearch_connection == esUp

\* The engine becomes unreachable, or reachable again
EngineToggle ==
    /\ esUp' = ~esUp
    /\ UNCHANGED <<exists, stores, idx, hs, sr, chat, upload, cache>>

\* create_all_indices()
create_all_indices ==
    /\ esUp
    /\ exists' = {ALL_INDICES[i] : i \in DOMAIN ALL_INDICES}
    /\ UNCHANGED <<esUp, stores, idx, hs, sr, chat, upload, cache>>

\* create_index(index_name): True when the index exists afterwards
create_index(index_name) ==
    /\ esUp
    /\ exists' = exists \cup {index_name}
    /\ UNCHANGED <<esUp, stores, idx, hs, sr, chat, upload, cache>>

----------------------------------------------------------------------------
(* hybrid_search *)

\* generate_embedding(query) returns a vector, returns an empty one, or raises
Embeddings == {"vector", "empty", "raise"}

\* query_embedding had generate_embedding been called outside a try: its
\* exception reaches the outer except of hybrid_search
query_embedding_unguarded(embedding) == embedding

\* query_embedding after try: generate_embedding(query) except: (logged):
\* the vector, the empty vector, or None when the call raised
query_embedding(embedding) == IF embedding = "raise" THEN "none" ELSE embedding

\* the search body built from the embedding: knn + keyword, or keyword only
search_body(embedding) == IF embedding = "vector" THEN "hybrid" ELSE "keyword"

\* the hits collected from the documents index: none when es.search raised
all_results(answer) == IF answer.raised THEN <<>> ELSE answer.hits

hybrid_search_result(answer, limit) ==
    aggregated_results(all_results(answer), limit)

hybrid_search ==
    \E limit \in 1..MaxLimit, embedding \in Embeddings :
      \E answer \in EsSearch(INDEX_DOCUMENTS, Responses) :
        LET embedded == query_embedding(embedding)
            \* an exception outside the inner try blocks: except: return []
            aborted == embedded = "raise"
        IN
        /\ hs' = [called |-> TRUE, limit |-> limit, embedding |-> embedding,
                  searched |-> ~aborted,
                  body |-> IF aborted THEN "none" ELSE search_body(embedded),
                  answer |-> answer,
                  ret |-> IF aborted THEN <<>> ELSE hybrid_search_result(answer, limit)]
        /\ UNCHANGED <<esUp, exists, stores, NotHybrid>>


----------------------------------------------------------------------------
(* Stores: an index is a function from document id to document *)

\* es.index(index, id, document): create or overwrite
Put(store, id, doc) == (id :> doc) @@ store

\* es.delete(index, id, ignore=[404])
Del(store, id) == [k \in DOMAIN store \ {id} |-> store[k]]

\* What a call may meet besides an unreachable engine: nothing, a failing
\* read (es.get raises), a failing write (es.index / es.delete raises), or a
\* failing generate_embedding
Faults == {"none", "read", "write", "embedding"}

----------------------------------------------------------------------------
(* index_company_card, index_person_card *)

CompanyIds == {"c1"}
PersonIds == {"p1"}

\* The records handed to the indexing functions: the id may be missing
\* (PyNone) or empty; a company may come without name (the profiles that
\* rebuild_index turns into persons always have one).
CompanyData == [id : {PyNone, ""} \cup CompanyIds, name : {PyNone, "Acme"}]
PersonData == [id : {PyNone, ""} \cup PersonIds, name : {"Ann"}]

\* data.get("name", "")
GetOr(value, default) == IF value = PyNone THEN default ELSE value

\* the searchable content: the populated fields, joined by blanks
searchable_content(data) == IF Truthy(data.name) THEN <<data.name>> ELSE <<>>

card_doc(data, card_type) ==
    [id |-> data.id, card_id |-> data.id, card_type |-> card_type,
     title |-> GetOr(data.name, ""), content |-> searchable_content(data),
     name |-> data.name]

\* index_*_card had it not looked at the id
index_card_unchecked(store, index, data, card_type, fault) ==
    IF ~esUp THEN [ret |-> FALSE, store |-> store, exists |-> exists]
    ELSE IF fault = "write"
    THEN [ret |-> FALSE, store |-> store, exists |-> exists \cup {index}]
    ELSE [ret |-> TRUE, store |-> Put(store, data.id, card_doc(data, card_type)),
          exists |-> exists \cup {index}]

\* The body shared by index_company_card and index_person_card: the return
\* value, the store and the set of indices afterwards.  es.indices.exists
\* raises when the engine is unreachable; the index is created before the id
\* is looked at.
index_card(store, index, data, card_type, fault) ==
    IF ~esUp THEN [ret |-> FALSE, store |-> store, exists |-> exists]
    ELSE IF ~Truthy(data.id) \/ fault = "write"
    THEN [ret |-> FALSE, store |-> store, exists |-> exists \cup {index}]
    ELSE [ret |-> TRUE, store |-> Put(store, data.id, card_doc(data, card_type)),
          exists |-> exists \cup {index}]

\* The record of a call: the operation, its id argument, its note argument
\* (for get_note: the text returned), its return value, and the note text
\* that was stored for the card when the call was made.
Call(op, arg, note, ret, before) ==
    [called |-> TRUE, op |-> op, arg |-> arg, note |-> note, ret |-> ret,
     before |-> before]

index_company_card ==
    \E company_data \in CompanyData, fault \in {"none", "write"} :
      LET r == index_card(companies, INDEX_COMPANIES, company_data, "company", fault)
      IN /\ companies' = r.store
         /\ exists' = r.exists
         /\ idx' = Call("index_company_card", company_data.id, <<>>, r.ret, <<>>)
         /\ UNCHANGED <<esUp, persons, notes, documents, NotIndex>>

index_person_card ==
    \E person_data \in PersonData, fault \in {"none", "write"} :
      LET r == index_card(persons, INDEX_PERSONS, person_data, "person", fault)
      IN /\ persons' = r.store
         /\ exists' = r.exists
         /\ idx' = Call("index_person_card", person_data.id, <<>>, r.ret, <<>>)
         /\ UNCHANGED <<esUp, companies, notes, documents, NotIndex>>

----------------------------------------------------------------------------
(* Notes: index_note, get_card_by_id_es, get_note, save_note, delete_note *)

\* The note texts a request may carry (NoteRequest.note is a str, never
\* None): the empty text, a whitespace-only one, and texts with and without
\* surrounding whitespace.
NoteTexts == {<<>>, <<" ">>, <<"a">>, <<" ", "b", " ">>}

\* not note or not note.strip()
IsBlank(note) == note = <<>> \/ strip(note) = <<>>

\* a note id that is fresh for every save: f"note_{card_id}_{n}"
note_id_per_save(card_id) ==
    "note_" \o card_id \o "_" \o ToString(Cardinality(DOMAIN notes))

\* f"note_{card_id}"
note_id(card_id) == "note_" \o card_id

\* the None that get_card_by_id_es returns, as a card of no type
NoCard == [id |-> PyNone, name |-> PyNone, card_type |-> PyNone]

\* get_card_by_id_es(card_id): the companies index first, then the persons
\* index; None when neither has it or the reads raise.  metadata.get("name",
\* "") gives the stored name, None included: the key is always stored.
get_card_by_id_es(card_id, fault) ==
    IF ~esUp \/ fault = "read" THEN NoCard
    ELSE IF INDEX_COMPANIES \in exists /\ card_id \in DOMAIN companies
    THEN [id |-> companies[card_id].id, name |-> companies[card_id].name,
          card_type |-> "company"]
    ELSE IF INDEX_PERSONS \in exists /\ card_id \in DOMAIN persons
    THEN [id |-> persons[card_id].id, name |-> persons[card_id].name,
          card_type |-> "person"]
    ELSE NoCard

\* card_metadata=None
NoMetadata == [given |-> FALSE, name |-> PyNone]

\* the card context appended to the note text
content_parts(note, card_type, card_metadata) ==
    IF card_metadata.given /\ Truthy(card_metadata.name)
    THEN IF card_type = "company" THEN <<note, <<"Company:", " ", card_metadata.name>>>>
         ELSE IF card_type = "person" THEN <<note, <<"Person:", " ", card_metadata.name>>>>
         ELSE <<note>>
    ELSE <<note>>

note_doc(card_id, note, card_type, card_metadata) ==
    [id |-> note_id(card_id),
     card_id |-> card_id,
     card_type |-> card_type,
     title |-> "Note for " \o (IF card_metadata.given THEN card_metadata.name ELSE card_id),
     content |-> join(<<" ">>, content_parts(note, card_type, card_metadata)),
     note_text |-> note]

\* index_note had it written a blank note like any other instead of deleting
index_note_blank_written(store, indices, card_id, note, card_type, card_metadata, fault) ==
    IF ~esUp THEN [ret |-> FALSE, store |-> store, exists |-> indices]
    ELSE IF fault \in {"write", "embedding"}
    THEN [ret |-> FALSE, store |-> store, exists |-> indices \cup {INDEX_NOTES}]
    ELSE [ret |-> TRUE,
          store |-> Put(store, note_id(card_id),
                        note_doc(card_id, note, card_type, card_metadata)),
          exists |-> indices \cup {INDEX_NOTES}]

\* index_note(card_id, note, card_type, card_metadata) on a notes store: the
\* return value, the store and the indices afterwards
index_note(store, indices, card_id, note, card_type, card_metadata, fault) ==
    IF ~esUp THEN [ret |-> FALSE, store |-> store, exists |-> indices]
    ELSE IF IsBlank(note)
    THEN IF fault = "write"
         THEN [ret |-> FALSE, store |-> store, exists |-> indices \cup {INDEX_NOTES}]
         ELSE [ret |-> TRUE, store |-> Del(store, note_id(card_id)),
               exists |-> indices \cup {INDEX_NOTES}]
    ELSE IF fault \in {"write", "embedding"}
    THEN [ret |-> FALSE, store |-> store, exists |-> indices \cup {INDEX_NOTES}]
    ELSE [ret |-> TRUE,
          store |-> Put(store, note_id(card_id),
                        note_doc(card_id, note, card_type, card_metadata)),
          exists |-> indices \cup {INDEX_NOTES}]

\* the metadata save_note builds from the card it found
card_metadata_of(card) == [given |-> TRUE, name |-> card.name]

\* save_note had it filed the note before looking for the card
save_note_result_unfound_written(card_id, note, fault) ==
    IF ~check_elasticsearch_connection
    THEN [ret |-> FALSE, store |-> notes, exists |-> exists]
    ELSE LET card == get_card_by_id_es(card_id, fault)
             filed == index_note(notes, exists, card_id, note, "unknown", NoMetadata, "none")
         IN IF card = NoCard
            THEN [ret |-> FALSE, store |-> filed.store, exists |-> filed.exists]
            ELSE index_note(notes, exists, card_id, note, card.card_type,
                            card_metadata_of(card), fault)

\* save_note(card_id, note): the return value, the notes and the indices
save_note_result(card_id, note, fault) ==
    IF ~check_elasticsearch_connection
    THEN [ret |-> FALSE, store |-> notes, exists |-> exists]
    ELSE LET card == get_card_by_id_es(card_id, fault)
         IN IF card = NoCard
            THEN [ret |-> FALSE, store |-> notes, exists |-> exists]
            ELSE index_note(notes, exists, card_id, note, card.card_type,
                            card_metadata_of(card), fault)

\* get_note had it returned the searchable content of the note
get_note_result_content(card_id, fault) ==
    IF ~check_elasticsearch_connection \/ fault = "read" THEN <<>>
    ELSE IF INDEX_NOTES \in exists /\ note_id(card_id) \in DOMAIN notes
    THEN notes[note_id(card_id)].content
    ELSE <<>>

\* get_note(card_id): the stored note_text, "" when the engine is
\* unreachable, the read raises or there is no note
get_note_result(card_id, fault) ==
    IF ~check_elasticsearch_connection \/ fault = "read" THEN <<>>
    ELSE IF INDEX_NOTES \in exists /\ note_id(card_id) \in DOMAIN notes
    THEN notes[note_id(card_id)].note_text
    ELSE <<>>

\* the note text the notes index holds for a card, "" when it holds none
stored_note(card_id) ==
    LET of_card == {k \in DOMAIN notes : notes[k].card_id = card_id}
    IN IF of_card = {} THEN <<>> ELSE notes[CHOOSE k \in of_card : TRUE].note_text

\* the card ids a request may name
RequestIds == CompanyIds \cup PersonIds

save_note ==
    \E card_id \in RequestIds, note \in NoteTexts, fault \in Faults :
      LET r == save_note_result(card_id, note, fault)
      IN /\ notes' = r.store
         /\ exists' = r.exists
         /\ idx' = Call("save_note", card_id, note, r.ret, stored_note(card_id))
         /\ UNCHANGED <<esUp, companies, persons, documents, NotIndex>>

get_note ==
    \E card_id \in RequestIds, fault \in {"none", "read"} :
      /\ idx' = Call("get_note", card_id, get_note_result(card_id, fault), TRUE,
                      stored_note(card_id))
      /\ UNCHANGED <<esUp, exists, stores, NotIndex>>

\* delete_note(card_id)
delete_note ==
    \E card_id \in RequestIds, fault \in {"none", "write"} :
      LET ok == check_elasticsearch_connection /\ fault = "none"
      IN /\ notes' = IF ok THEN Del(notes, note_id(card_id)) ELSE notes
         /\ idx' = Call("delete_note", card_id, <<>>, ok, stored_note(card_id))
         /\ UNCHANGED <<esUp, exists, companies, persons, documents, NotIndex>>

\* get_card_by_id(card_id) of main.py: the card as a CompanyCardData or a
\* PersonCardData; pydantic raises when the stored name is None
get_card_by_id(card_id, fault) ==
    LET card == get_card_by_id_es(card_id, fault)
    IN IF card # NoCard /\ card.name = PyNone
       THEN [raised |-> TRUE, card |-> NoCard]
       ELSE [raised |-> FALSE, card |-> card]

\* save_card_note(card_id, note_request): save_note, then, when it succeeded
\* and the engine answers, index_note once more with the card's metadata
\* (card_type "unknown" and no metadata when the card is not found); what
\* the second call returns or raises is dropped.  HTTP 500 when save_note
\* returned False.
save_card_note_result(card_id, note, fault1, fault2) ==
    LET first == save_note_result(card_id, note, fault1)
        found == get_card_by_id(card_id, fault2)
        card == found.card
        second == index_note(first.store, first.exists, card_id, note,
                             IF card = NoCard THEN "unknown" ELSE card.card_type,
                             IF card = NoCard THEN NoMetadata ELSE card_metadata_of(card),
                             fault2)
    IN IF first.ret /\ check_elasticsearch_connection /\ ~found.raised
       THEN [ret |-> TRUE, store |-> second.store, exists |-> second.exists]
       ELSE first

save_card_note ==
    \E card_id \in RequestIds, note \in NoteTexts, fault1 \in Faults, fault2 \in Faults :
      /\ fault1 = "none" \/ fault2 = "none"
      /\ LET r == save_card_note_result(card_id, note, fault1, fault2)
         IN /\ notes' = r.store
            /\ exists' = r.exists
            /\ idx' = Call("save_card_note", card_id, note, r.ret, stored_note(card_id))
            /\ UNCHANGED <<esUp, companies, persons, documents, NotIndex>>

\* es.delete_by_query had the query been match_all
DelByCard_all(store, card_id) == [k \in {} |-> store[k]]

\* es.delete_by_query(index, term card_id)
DelByCard(store, card_id) ==
    [k \in {k \in DOMAIN store : store[k].card_id # card_id} |-> store[k]]

\* the card types a caller may pass; index_map knows the first three
CardTypes == {"company", "person", "note", "document"}

\* the document card_id of the index card_type names, when that index exists
delete_from(store, index, card_type, wanted, card_id) ==
    IF card_type = wanted /\ index \in exists THEN Del(store, card_id) ELSE store

\* What a call of delete_card_from_index may meet: nothing, es.delete
\* raising, es.delete_by_query raising
DeleteFaults == {"none", "delete", "query"}

\* delete_card_from_index(card_id, card_type): the four stores afterwards and
\* the return value.  es.indices.exists raises when the engine is unreachable;
\* es.delete is called when card_type is in index_map and its index exists;
\* es.delete_by_query is called when the documents index exists, after the
\* card was deleted.
delete_card_result(card_id, card_type, fault) ==
    LET unchanged == [ret |-> FALSE, companies |-> companies, persons |-> persons,
                      notes |-> notes, documents |-> documents]
        deleted == [unchanged EXCEPT
                      !.companies = delete_from(@, INDEX_COMPANIES, card_type, "company", card_id),
                      !.persons = delete_from(@, INDEX_PERSONS, card_type, "person", card_id),
                      !.notes = delete_from(@, INDEX_NOTES, card_type, "note", card_id)]
        \* es.delete is called
        deletes == \/ card_type = "company" /\ INDEX_COMPANIES \in exists
                   \/ card_type = "person" /\ INDEX_PERSONS \in exists
                   \/ card_type = "note" /\ INDEX_NOTES \in exists
    IN IF ~esUp \/ (fault = "delete" /\ deletes) THEN unchanged
       ELSE IF INDEX_DOCUMENTS \notin exists THEN [deleted EXCEPT !.ret = TRUE]
       ELSE IF fault = "query" THEN deleted
       ELSE [deleted EXCEPT !.ret = TRUE,
                            !.documents = DelByCard(documents, card_id)]

delete_card_from_index ==
    \E card_id \in RequestIds \cup {note_id(c) : c \in RequestIds},
       card_type \in CardTypes, fault \in DeleteFaults :
      LET r == delete_card_result(card_id, card_type, fault)
      IN /\ companies' = r.companies
         /\ persons' = r.persons
         /\ notes' = r.notes
         /\ documents' = r.documents
         /\ idx' = Call("delete_card_from_index", card_id, <<card_type>>, r.ret, <<>>)
         /\ UNCHANGED <<esUp, exists, NotIndex>>

----------------------------------------------------------------------------
(* agent_generate_queries: the plan parsed from the LLM's answer *)

\* JSON values, as far as the pipeline tells them apart: a string, null, a
\* number, a list of n items, and Missing for a key the object does not have
JStr(string) == [t |-> "str", s |-> string, n |-> 0]
JNull == [t |-> "null", s |-> "", n |-> 0]
JNum(k) == [t |-> "num", s |-> "", n |-> k]
JList(k) == [t |-> "list", s |-> "", n |-> k]
Missing == [t |-> "missing", s |-> "", n |-> 0]

\* a JSON object with the three keys of a plan, or another JSON value
JObject(ek, dq, wq) ==
    [kind |-> "dict", entity_keywords |-> ek, document_query |-> dq, web_query |-> wq]
JOther(kind) ==
    [kind |-> kind, entity_keywords |-> Missing, document_query |-> Missing,
     web_query |-> Missing]

\* The JSON texts the LLM may write, by name, and what json.loads makes of
\* them.  Each is one symbol of the answer.
Payloads ==
    {"{plan}", "{web:abc}", "{web:}", "{web:null}", "{web:2020}", "{web:[4]}",
     "{kw-only}", "{kw:}", "[list]"}

loads(payload) ==
    CASE payload = "{plan}" -> JObject(JStr("Apple"), JStr("Apple"), JStr("Apple CEO"))
      [] payload = "{web:abc}" -> JObject(JStr("Apple"), JStr("Apple"), JStr("abc"))
      [] payload = "{web:}" -> JObject(JStr("Apple"), JStr("Apple"), JStr(""))
      [] payload = "{web:null}" -> JObject(JStr("Apple"), JStr("Apple"), JNull)
      [] payload = "{web:2020}" -> JObject(JStr("Apple"), JStr("Apple"), JNum(2020))
      [] payload = "{web:[4]}" -> JObject(JStr("Apple"), JStr("Apple"), JList(4))
      [] payload = "{kw-only}" -> JObject(JStr("Apple"), Missing, Missing)
      [] payload = "{kw:}" -> JObject(JStr(""), JStr("Apple"), JStr("Apple CEO"))
      [] payload = "[list]" -> JOther("list")

\* the three backquotes that open and close a code fence
Fence == "<fence>"

\* the answers of the LLM: a JSON text bare, in a json fence, in a plain
\* fence, in a fence with prose around it, in a fence of another language,
\* and prose without JSON
Contents ==
    {<<payload>> : payload \in Payloads}
    \cup {<<Fence, "json", "\n", "{plan}", "\n", Fence>>,
          <<"\n", Fence, "\n", "{web:abc}", "\n", Fence, "\n">>,
          <<"Here", " ", Fence, "json", "{kw-only}", Fence, " ", "Done">>,
          <<Fence, "js", "\n", "{plan}", Fence>>,
          <<"Sorry">>}

\* the first of a set of indices, 0 when there is none
FirstIndex(indices) ==
    IF indices = {} THEN 0 ELSE CHOOSE i \in indices : \A j \in indices : i <= j

\* content.split(Fence)[0]
BeforeFence(content) ==
    LET i == FirstIndex({k \in DOMAIN content : content[k] = Fence})
    IN IF i = 0 THEN content ELSE SubSeq(content, 1, i - 1)

\* The fence stripping of agent_generate_queries
unfence(content) ==
    LET jsonAt == FirstIndex({k \in DOMAIN content :
                     content[k] = Fence /\ k < Len(content) /\ content[k + 1] = "json"})
        fenceAt == FirstIndex({k \in DOMAIN content : content[k] = Fence})
    IN IF jsonAt # 0
       THEN BeforeFence(SubSeq(content, jsonAt + 2, Len(content)))
       ELSE IF fenceAt # 0
       THEN BeforeFence(SubSeq(content, fenceAt + 1, Len(content)))
       ELSE content

\* json.loads(content): surrounding whitespace is allowed, anything else
\* than one JSON text raises
Parses(content) == Len(strip(content)) = 1 /\ strip(content)[1] \in Payloads

\* the plan of the except branch: the raw question for all three fields
fallback_plan(user_question) ==
    JObject(JStr(user_question), JStr(user_question), JStr(user_question))

\* get_chat_model raises ValueError when GROQ_API_KEY is not set
KeyMissing == "GROQ_API_KEY environment variable is not set."

\* The answers of model.ainvoke: it raises, or it answers with a content
LlmAnswers == {[raised |-> TRUE, content |-> <<>>]}
              \cup {[raised |-> FALSE, content |-> c] : c \in Contents}

\* agent_generate_queries(user_question, history): get_chat_model is called
\* before the try; the LLM call and the parsing are inside it.
agent_generate_queries(user_question, keySet, llm) ==
    IF ~keySet
    THEN [raised |-> TRUE, error |-> KeyMissing, fellBack |-> FALSE,
          value |-> JOther("none")]
    ELSE LET content == unfence(strip(llm.content))
         IN IF llm.raised \/ ~Parses(content)
            THEN [raised |-> FALSE, error |-> "", fellBack |-> TRUE,
                  value |-> fallback_plan(user_question)]
            ELSE [raised |-> FALSE, error |-> "", fellBack |-> FALSE,
                  value |-> loads(strip(content)[1])]

----------------------------------------------------------------------------
(* search_standard_tables *)

\* not x, for a JSON value
Falsy(v) ==
    \/ v.t \in {"null", "missing"}
    \/ v.t = "str" /\ v.s = ""
    \/ v.t \in {"num", "list"} /\ v.n = 0

\* the hits of the three tables, by the name they carry
PersonHits == {<<>>, <<"Ann">>, <<"Ann", "Bob">>}
CompanyHits == {<<>>, <<"Acme">>}
NoteHits == {<<>>, <<"met">>}

person_info(name) == <<"PERSON:", " ", name>>
company_info(name) == <<"COMPANY:", " ", name>>
note_info(content) == <<"NOTE", " ", "for", " ", content>>

\* the line a block appends for a hit
info(block, hit) ==
    CASE block = "persons" -> person_info(hit)
      [] block = "companies" -> company_info(hit)
      [] block = "notes" -> note_info(hit)

\* a search block had it no try around it: the exception of es.search leaves
\* the function
search_block_unguarded(block, answer) ==
    [raised |-> answer.raised,
     results |-> [i \in DOMAIN answer.hits |-> info(block, answer.hits[i])]]

\* A search block of search_standard_tables, try: es.search ... except: pass:
\* the results it appends, none when es.search raised
search_block(block, answer) ==
    [raised |-> FALSE,
     results |-> IF answer.raised THEN <<>>
                 ELSE [i \in DOMAIN answer.hits |-> info(block, answer.hits[i])]]

\* search_standard_tables(keywords) for the answers of the three searches
search_standard_tables(keywords, answers) ==
    IF Falsy(keywords) \/ ~check_elasticsearch_connection
    THEN [raised |-> FALSE, entities |-> <<>>, notes |-> <<>>]
    ELSE LET person_block == search_block("persons", answers.persons)
             company_block == search_block("companies", answers.companies)
             note_block == search_block("notes", answers.notes)
             entity_results == person_block.results \o company_block.results
             note_results == note_block.results
         IN IF person_block.raised \/ company_block.raised \/ note_block.raised
            THEN [raised |-> TRUE, entities |-> <<>>, notes |-> <<>>]
            ELSE [raised |-> FALSE,
                  entities |-> join(<<"\n", "\n">>, entity_results),
                  notes |-> join(<<"\n">>, note_results)]

\* the keywords of the model
Keywords == {JStr(""), JStr("Apple")}

\* what the searches of main.py and of the chat leave alone
NotSearch == <<idx, hs, chat, upload, cache>>

\* search_standard_tables is called
search_tables ==
    \E keywords \in Keywords,
       persons_answer \in EsSearch(INDEX_PERSONS, PersonHits),
       companies_answer \in EsSearch(INDEX_COMPANIES, CompanyHits),
       notes_answer \in EsSearch(INDEX_NOTES, NoteHits) :
      LET answers == [persons |-> persons_answer, companies |-> companies_answer,
                      notes |-> notes_answer,
                      documents |-> [raised |-> TRUE, hits |-> <<>>]]
          ret == search_standard_tables(keywords, answers)
      IN /\ sr' = [called |-> TRUE, op |-> "search_standard_tables",
                   query |-> keywords.s, up |-> esUp, answers |-> answers,
                   ret |-> [raised |-> ret.raised, entities |-> ret.entities,
                            notes_text |-> ret.notes, companies |-> <<>>,
                            persons |-> <<>>, notes |-> <<>>, documents |-> <<>>]]
         /\ UNCHANGED <<esUp, exists, stores, NotSearch>>

----------------------------------------------------------------------------
(* chat_with_ai *)

\* hybrid_search(query=doc_query, limit=5)
ChatDocLimit == 5

\* len(web_query) > 3
MinWebQueryLen == 3

\* the answers of the documents index in a chat
DocHits == {<<>>, HitsOf(<<<<"c1", 1>>>>)}

\* the text perform_web_search returns: "" when it failed or found nothing
WebTexts == {<<>>, <<"[Web Result]", " ", "Tim">>}

\* the messages of the model
Messages == {"hi", "Apple CEO"}

\* queries.get(key, message)
plan_get(value, message) == IF value.t = "missing" THEN JStr(message) ELSE value

doc_piece(r) == <<"[Document File]", " ", "Title:", " ", r.card_id>>

\* the pieces of the results whose card_type is document: all of them
doc_context_of(doc_results) ==
    join(<<"\n", "\n">>, [i \in DOMAIN doc_results |-> doc_piece(doc_results[i])])

NoAttributeGet == "'list' object has no attribute 'get'"
NoLen == "object of type 'int' has no len()"
LlmDown == "llm unavailable"

\* has_*_match had an empty context counted as a match
has_match_always(context) == TRUE

\* has_*_match
has_match(context) == strip(context) # <<>>

\* The web fallback had it looked at the entity context only
web_wanted_entities_only(entity_context, notes_context, doc_context, web_query) ==
    /\ ~has_match(entity_context)
    /\ ~Falsy(web_query)

\* The condition of the web fallback, up to len(web_query)
web_wanted(entity_context, notes_context, doc_context, web_query) ==
    /\ ~has_match(entity_context)
    /\ ~has_match(notes_context)
    /\ ~has_match(doc_context)
    /\ ~Falsy(web_query)

\* len(x) of a JSON value that has a length
len(v) == IF v.t = "str" THEN Len(v.s) ELSE v.n

\* chat_with_ai from the plan to the call of the synthesis model: the queries,
\* the contexts, the calls of perform_web_search made (the queries passed),
\* the exception that left the try body, "" when none did, and whether the
\* engine answered check_elasticsearch_connection
chat_retrieve(message, queries, answers, web_text) ==
    LET kw_query == plan_get(queries.entity_keywords, message)
        doc_query == plan_get(queries.document_query, message)
        web_query == plan_get(queries.web_query, message)
        search_output == search_standard_tables(kw_query, answers)
        doc_results == IF check_elasticsearch_connection
                       THEN hybrid_search_result(answers.documents, ChatDocLimit)
                       ELSE <<>>
        doc_context == doc_context_of(doc_results)
        wanted == web_wanted(search_output.entities, search_output.notes,
                             doc_context, web_query)
        searched == wanted /\ web_query.t # "num" /\ len(web_query) > MinWebQueryLen
        base == [error |-> "", web_query |-> web_query,
                 entity_context |-> search_output.entities,
                 notes_context |-> search_output.notes,
                 doc_context |-> doc_context,
                 web_calls |-> <<>>, web_context |-> <<>>,
                 up |-> check_elasticsearch_connection]
    IN IF queries.kind # "dict"
       THEN [error |-> NoAttributeGet, web_query |-> Missing,
             entity_context |-> <<>>, notes_context |-> <<>>, doc_context |-> <<>>,
             web_calls |-> <<>>, web_context |-> <<>>,
             up |-> check_elasticsearch_connection]
       ELSE IF wanted /\ web_query.t = "num"
       THEN [base EXCEPT !.error = NoLen]
       ELSE IF searched
       THEN [base EXCEPT !.web_calls = <<web_query>>, !.web_context = web_text]
       ELSE base

\* a block of the context had it printed the source as it is
block_bare(label, context, placeholder) == [label |-> label, body |-> context]

\* A block of final_context: the label line, then the source, or the
\* placeholder when the source is the empty string
block(label, context, placeholder) ==
    [label |-> label, body |-> IF context # <<>> THEN context ELSE <<placeholder>>]

\* final_context: the four blocks of the f-string, top to bottom
final_context(entity_context, notes_context, doc_context, web_context) ==
    <<block("=== DATABASE RECORDS (Internal - High Confidence) ===",
            entity_context, "No direct matches."),
      block("=== INTERNAL NOTES (Meetings) ===", notes_context, "No notes found."),
      block("=== DOCUMENTS (Uploaded Files - Context Only) ===",
            doc_context, "No relevant files."),
      block("=== WEB SEARCH RESULTS (Public Knowledge) ===",
            web_context, "No web results.")>>

\* A turn of conversation_history: a dict with a role and, unless the key is
\* missing (PyNone), a content
Turn(role, content) == [role |-> role, content |-> content]

\* the histories of the model: none, one turn, an exchange, an exchange in
\* the other order, a turn of another role between two turns, and a turn
\* without content
Histories ==
    {<<>>,
     <<Turn("user", "q1")>>,
     <<Turn("user", "q1"), Turn("assistant", "a1")>>,
     <<Turn("assistant", "a1"), Turn("user", "q1")>>,
     <<Turn("user", "q1"), Turn("system", "s1"), Turn("assistant", "a1")>>,
     <<Turn("user", PyNone), Turn("assistant", "a1")>>}

\* a message of langchain: its class and its content
Message(type, content) == [type |-> type, content |-> content]

RECURSIVE replayed_users_only(_)
\* the replay had it kept the turns of the user only
replayed_users_only(conversation_history) ==
    IF conversation_history = <<>> THEN <<>>
    ELSE LET msg == Head(conversation_history)
             rest == replayed_users_only(Tail(conversation_history))
         IN IF msg.role = "user"
            THEN <<Message("human", GetOr(msg.content, ""))>> \o rest
            ELSE rest

RECURSIVE replayed(_)
\* The loop over conversation_history: a HumanMessage for a turn of the user,
\* an AIMessage for a turn of the assistant, nothing for another role
replayed(conversation_history) ==
    IF conversation_history = <<>> THEN <<>>
    ELSE LET msg == Head(conversation_history)
             rest == replayed(Tail(conversation_history))
         IN IF msg.role = "user"
            THEN <<Message("human", GetOr(msg.content, ""))>> \o rest
            ELSE IF msg.role = "assistant"
            THEN <<Message("ai", GetOr(msg.content, ""))>> \o rest
            ELSE rest

\* messages: the system prompt, which carries the context, the replayed
\* history, the new message
messages_of(context, conversation_history, message) ==
    <<Message("system", context)>> \o replayed(conversation_history)
    \o <<Message("human", message)>>

\* the value a call returns, or the exception it raises
Returned(text) == [kind |-> "returned", text |-> text]
Raised(text) == [kind |-> "raised", text |-> text]

\* chat_with_ai had it no top-level except
chat_except_reraise(error) == Raised(error)

\* except Exception as e: return f"I encountered an error. Details: {str(e)}"
chat_except(error) == Returned("I encountered an error. Details: " \o error)

NoChat ==
    [pc |-> "idle", message |-> "", keySet |-> FALSE,
     plan |-> [raised |-> FALSE, error |-> "", fellBack |-> FALSE, value |-> JOther("none")],
     llm |-> [raised |-> FALSE, content |-> <<>>],
     got |-> [error |-> "", web_query |-> Missing, entity_context |-> <<>>,
              notes_context |-> <<>>, doc_context |-> <<>>, web_calls |-> <<>>,
              web_context |-> <<>>, up |-> FALSE],
     history |-> <<>>, final_context |-> <<>>, messages |-> <<>>,
     error |-> "", result |-> [kind |-> "none", text |-> ""]]

\* what chat_with_ai leaves alone
NotChat == <<idx, hs, sr, upload, cache>>

\* chat_with_ai is called: agent_generate_queries builds its model, which
\* raises without GROQ_API_KEY, and awaits the LLM
chat_call ==
    /\ chat.pc \in {"idle", "done"}
    /\ \E message \in Messages, conversation_history \in Histories, keySet \in BOOLEAN :
         LET plan == agent_generate_queries(message, keySet, [raised |-> FALSE, content |-> <<>>])
         IN chat' = IF plan.raised
                    THEN [NoChat EXCEPT !.pc = "done", !.message = message,
                                        !.history = conversation_history,
                                        !.keySet = keySet, !.plan = plan,
                                        !.error = plan.error,
                                        !.result = chat_except(plan.error)]
                    ELSE [NoChat EXCEPT !.pc = "planning", !.message = message,
                                        !.history = conversation_history,
                                        !.keySet = keySet]
    /\ UNCHANGED <<esUp, exists, stores, NotChat>>

\* The LLM answers the planner (or the call raises): the plan is parsed, the
\* tables and the documents are searched, the web is searched when nothing
\* was found, and the synthesis model is called
chat_plan ==
    /\ chat.pc = "planning"
    /\ \E llm \in LlmAnswers,
          persons_answer \in EsSearch(INDEX_PERSONS, PersonHits),
          companies_answer \in EsSearch(INDEX_COMPANIES, CompanyHits),
          notes_answer \in EsSearch(INDEX_NOTES, NoteHits),
          docs_answer \in EsSearch(INDEX_DOCUMENTS, DocHits),
          web_text \in WebTexts :
         LET plan == agent_generate_queries(chat.message, chat.keySet, llm)
             answers == [persons |-> persons_answer, companies |-> companies_answer,
                         notes |-> notes_answer, documents |-> docs_answer]
             got == chat_retrieve(chat.message, plan.value, answers, web_text)
             context == final_context(got.entity_context, got.notes_context,
                                      got.doc_context, got.web_context)
         IN \* the text of the web matters only when the web is searched
            /\ got.web_calls # <<>> \/ web_text = <<>>
            /\ chat' = IF got.error # ""
                       THEN [chat EXCEPT !.pc = "done", !.plan = plan, !.llm = llm,
                                         !.got = got, !.error = got.error,
                                         !.result = chat_except(got.error)]
                       ELSE [chat EXCEPT !.pc = "synthesis", !.plan = plan,
                                         !.llm = llm, !.got = got,
                                         !.final_context = context,
                                         !.messages = messages_of(context, chat.history,
                                                                  chat.message)]
    /\ UNCHANGED <<esUp, exists, stores, NotChat>>

\* the answers of the synthesis model
Answers == {"Based on web search, Tim Cook.", "**Acme**"}

\* The LLM answers the synthesis call, or the call raises
chat_answer ==
    /\ chat.pc = "synthesis"
    /\ \/ \E text \in Answers :
            chat' = [chat EXCEPT !.pc = "done", !.result = Returned(text)]
       \/ chat' = [chat EXCEPT !.pc = "done", !.error = LlmDown,
                               !.result = chat_except(LlmDown)]
    /\ UNCHANGED <<esUp, exists, stores, NotChat>>

----------------------------------------------------------------------------
(* search_cards of main.py *)

\* the hits of the card searches: the id and the stored name of a card
Acme == [id |-> "c1", name |-> "Acme"]
Nameless == [id |-> "c2", name |-> PyNone]
CompanyCardHits == {<<>>, <<Acme>>, <<Acme, Nameless>>, <<Nameless, Acme>>}
PersonCardHits == {<<>>, <<[id |-> "p1", name |-> "Ann"]>>}
NoteCardHits == {<<>>, <<[id |-> "note_c1", card_id |-> "c1"]>>,
                 <<[id |-> "note_p1", card_id |-> "p1"]>>}

\* search_companies_es / search_persons_es / search_notes_es: the hits, []
\* when the index is missing or anything raised
search_es(answer) == IF answer.raised THEN <<>> ELSE answer.hits

\* the cards appended before the loop met a card whose name is None, which
\* CompanyCardData / PersonCardData reject
cards_appended(es_results) ==
    LET bad == FirstIndex({k \in DOMAIN es_results : es_results[k].name = PyNone})
    IN IF bad = 0 THEN es_results ELSE SubSeq(es_results, 1, bad - 1)

\* load_company_cards / load_person_cards: [] on any exception
load_cards(answer) ==
    IF ~check_elasticsearch_connection \/ answer.raised
       \/ cards_appended(answer.hits) # answer.hits
    THEN <<>> ELSE answer.hits

\* the notes appended, each with its parent card, before get_card_by_id raised
notes_appended(es_results, fault) ==
    LET bad == FirstIndex({k \in DOMAIN es_results :
                   get_card_by_id(es_results[k].card_id, fault).raised})
        done == IF bad = 0 THEN es_results ELSE SubSeq(es_results, 1, bad - 1)
    IN [i \in DOMAIN done |->
          [id |-> done[i].id, card_id |-> done[i].card_id,
           parent_card |-> get_card_by_id(done[i].card_id, fault).card]]

RECURSIVE documents_kept(_, _)
\* the documents whose parent card was found
documents_kept(document_results, fault) ==
    IF document_results = <<>> THEN <<>>
    ELSE LET doc_result == Head(document_results)
             parent_card == get_card_by_id(doc_result.card_id, fault).card
             rest == documents_kept(Tail(document_results), fault)
         IN IF parent_card = NoCard THEN rest
            ELSE <<[id |-> doc_result.id, card_id |-> doc_result.card_id,
                    score |-> doc_result.score, parent_card |-> parent_card]>> \o rest

\* the documents appended before get_card_by_id raised
documents_appended(document_results, fault) ==
    LET bad == FirstIndex({k \in DOMAIN document_results :
                   get_card_by_id(document_results[k].card_id, fault).raised})
        done == IF bad = 0 THEN document_results
                ELSE SubSeq(document_results, 1, bad - 1)
    IN documents_kept(done, fault)

\* A should clause of a search body: the query type, the fields it reads,
\* whether it is fuzzy, and its boost in tenths (30 is 3.0)
Clause(type, fields, fuzzy, boost) ==
    [type |-> type, fields |-> fields, fuzzy |-> fuzzy, boost |-> boost]

\* search_body of search_companies_es and of search_persons_es: the should
\* clauses and minimum_should_match
entity_search_body ==
    [should |-> <<Clause("phrase_prefix", <<"title^3", "content^2">>, FALSE, 30),
                  Clause("best_fields", <<"title^3", "content^2">>, FALSE, 20),
                  Clause("best_fields", <<"title^2", "content">>, TRUE, 10)>>,
     minimum_should_match |-> 1]

\* search_body of search_notes_es
notes_search_body ==
    [should |-> <<Clause("match", <<"content">>, FALSE, 30),
                  Clause("match_phrase_prefix", <<"content">>, FALSE, 25),
                  Clause("match", <<"content">>, TRUE, 10)>>,
     minimum_should_match |-> 1]

\* no search body: the search was not run
NoBody == [should |-> <<>>, minimum_should_match |-> 0]

\* the queries of the model
Queries == {"", "Apple"}

\* limit: int = 50
SearchLimit == 50

NoResults == [raised |-> FALSE, entities |-> <<>>, notes_text |-> <<>>,
              companies |-> <<>>, persons |-> <<>>, notes |-> <<>>, documents |-> <<>>]

\* search_cards(query, limit) for the answers of the four searches
search_cards_result(query, limit, answers, fault) ==
    IF query = ""
    THEN [NoResults EXCEPT !.companies = load_cards(answers.companies),
                           !.persons = load_cards(answers.persons)]
    ELSE IF ~check_elasticsearch_connection THEN NoResults
    ELSE [NoResults EXCEPT
            !.companies = cards_appended(search_es(answers.companies)),
            !.persons = cards_appended(search_es(answers.persons)),
            !.notes = notes_appended(search_es(answers.notes), fault),
            !.documents = documents_appended(
                              hybrid_search_result(answers.documents, limit), fault)]

search_cards ==
    \E query \in Queries, fault \in {"none", "read"},
       companies_answer \in EsSearch(INDEX_COMPANIES, CompanyCardHits),
       persons_answer \in EsSearch(INDEX_PERSONS, PersonCardHits),
       notes_answer \in EsSearch(INDEX_NOTES, NoteCardHits),
       docs_answer \in EsSearch(INDEX_DOCUMENTS, DocHits) :
      LET answers == [persons |-> persons_answer, companies |-> companies_answer,
                      notes |-> notes_answer, documents |-> docs_answer]
          ran == query # "" /\ check_elasticsearch_connection
      IN /\ sr' = [called |-> TRUE, op |-> "search_cards", query |-> query,
                   up |-> esUp, answers |-> answers,
                   bodies |-> [companies |-> IF ran THEN entity_search_body ELSE NoBody,
                               persons |-> IF ran THEN entity_search_body ELSE NoBody,
                               notes |-> IF ran THEN notes_search_body ELSE NoBody],
                   ret |-> search_cards_result(query, SearchLimit, answers, fault)]
         /\ UNCHANGED <<esUp, exists, stores, NotSearch>>

----------------------------------------------------------------------------
(* upload_file and index_document: the upload pipeline and its status *)

\* the uploads and the chunks of a document the model follows
MaxUploads == 2
MaxChunks == 2

\* A status record: the stage, the progress and the chunk counters
Status(stage, progress, chunks_total, chunks_indexed) ==
    [stage |-> stage, progress |-> progress, chunks_total |-> chunks_total,
     chunks_indexed |-> chunks_indexed]

\* create_upload_status(file_id, filename): a new record at the first stage;
\* the status id is its place in the store
create_upload_status(store) == Append(store, Status("uploading", 0, 0, 0))

\* update_upload_status(status_id, status, progress, message, **counters):
\* the stage and the progress are set, a counter only when it is given (a
\* counter that is not given is passed as -1 here)
update_upload_status(store, status_id, stage, progress, chunks_total, chunks_indexed) ==
    [store EXCEPT ![status_id] =
        Status(stage, progress,
               IF chunks_total < 0 THEN @.chunks_total ELSE chunks_total,
               IF chunks_indexed < 0 THEN @.chunks_indexed ELSE chunks_indexed)]

\* complete_upload_status(status_id, success, message): the terminal stage;
\* the progress is full on success and stays where it was on failure
complete_upload_status(store, status_id, success) ==
    [store EXCEPT ![status_id] =
        Status(IF success THEN "done" ELSE "failed",
               IF success THEN 100 ELSE @.progress,
               @.chunks_total, @.chunks_indexed)]

\* the chunks of the model: one of text, one of whitespace only
TextChunk == <<"a">>
BlankChunk == <<" ">>
ChunkLists ==
    UNION {[1..n -> {TextChunk, BlankChunk}] : n \in 0..MaxChunks}

\* What extract_text_from_file returns: no text, or a text, given by the
\* chunks it is made of
NoText == [empty |-> TRUE, chunks |-> <<>>]
Texts == {NoText} \cup {[empty |-> FALSE, chunks |-> c] : c \in ChunkLists}

\* chunk_text_by_sentences(extracted_text, max_chunk_size=500,
\* overlap_sentences=1): the ordered chunks of the text
chunk_text_by_sentences(extracted_text) == extracted_text.chunks

\* the files of the model and their extensions; a file name is the client's
\* and may hold any character, "_" included
UploadFiles == {[filename |-> "a.pdf", file_ext |-> ".pdf"],
                [filename |-> "x_a.pdf", file_ext |-> ".pdf"],
                [filename |-> "b.txt", file_ext |-> ".txt"]}
allowed_extensions == {".pdf", ".docx", ".doc"}

\* the card ids of the path /api/cards/{card_id}/upload: any text, it is not
\* looked up before the upload
UploadCards == {"c1", "c1_x"}

\* the requests of the model: two documents of two cards, and a file whose
\* extension is refused
UploadRequests ==
    {r \in UploadCards \X UploadFiles :
        \/ r[1] = "c1" /\ r[2].filename \in {"x_a.pdf", "b.txt"}
        \/ r[1] = "c1_x" /\ r[2].filename = "a.pdf"}

\* chunk_id = f"doc_{card_id}_{filename}_chunk_{chunk_idx}"
chunk_id(card_id, filename, chunk_idx) ==
    "doc_" \o card_id \o "_" \o filename \o "_chunk_" \o ToString(chunk_idx)

\* the document written for a chunk
chunk_doc(card_id, filename, chunk_idx, chunk_text, total_chunks) ==
    [id |-> chunk_id(card_id, filename, chunk_idx), card_id |-> card_id,
     title |-> filename \o " (chunk " \o ToString(chunk_idx + 1) \o ")",
     content |-> chunk_text, filename |-> filename,
     chunk_index |-> chunk_idx, total_chunks |-> total_chunks]

\* progress = 60 + int((chunk_idx + 1) / len(chunks) * 35) had it counted down
chunk_progress_down(chunk_idx, total) == 60 - ((chunk_idx + 1) * 35) \div total

\* progress = 60 + int((chunk_idx + 1) / len(chunks) * 35)
chunk_progress(chunk_idx, total) == 60 + ((chunk_idx + 1) * 35) \div total

\* no request under way
NoRequest ==
    [pc |-> "idle", status_id |-> 0, card_id |-> "", filename |-> "",
     text |-> NoText, chunks |-> <<>>, chunk_idx |-> 0, written |-> <<>>,
     indexed_count |-> 0, failed_at |-> -1, ret |-> "none", response |-> 0]

NoUpload == [status |-> <<>>, request |-> NoRequest]

\* what the upload pipeline leaves alone
NotUpload == <<companies, persons, notes, idx, hs, sr, chat, cache>>

\* the request ends: the response status, and what index_document returned
Ended(request, response) == [request EXCEPT !.pc = "done", !.response = response]

\* POST /api/cards/{card_id}/upload arrives: a file of another type is
\* refused with 400 before any status exists; otherwise the status is created
upload_file ==
    /\ upload.request.pc \in {"idle", "done"}
    /\ Len(upload.status) < MaxUploads
    /\ \E r \in UploadRequests :
         LET card_id == r[1]
             file == r[2]
         IN
         upload' =
           IF file.file_ext \notin allowed_extensions
           THEN [upload EXCEPT !.request = Ended(NoRequest, 400)]
           ELSE [status |-> create_upload_status(upload.status),
                 request |-> [NoRequest EXCEPT !.pc = "created",
                                               !.status_id = Len(upload.status) + 1,
                                               !.card_id = card_id,
                                               !.filename = file.filename]]
    /\ UNCHANGED <<esUp, exists, documents, NotUpload>>

\* update_upload_status(status_id, "uploading", 10, ...), then the file is
\* read and written to the uploads directory
upload_save ==
    /\ upload.request.pc = "created"
    /\ upload' = [upload EXCEPT
                    !.status = update_upload_status(@, upload.request.status_id,
                                                    "uploading", 10, -1, -1),
                    !.request.pc = "saving"]
    /\ UNCHANGED <<esUp, exists, documents, NotUpload>>

\* The file was saved, or saving raised: except Exception completes the
\* status as failed and answers 500; otherwise the stage is extracting
upload_saved ==
    /\ upload.request.pc = "saving"
    /\ \E raised \in BOOLEAN :
         upload' =
           IF raised
           THEN [status |-> complete_upload_status(upload.status,
                                                   upload.request.status_id, FALSE),
                 request |-> Ended(upload.request, 500)]
           ELSE [upload EXCEPT
                   !.status = update_upload_status(@, upload.request.status_id,
                                                   "extracting", 30, -1, -1),
                   !.request.pc = "extracting"]
    /\ UNCHANGED <<esUp, exists, documents, NotUpload>>

\* upload_file after extract_text_from_file had it returned without
\* completing the status when no text was extracted
after_extract_unfinished(store, request, extracted_text) ==
    IF extracted_text.empty
    THEN [status |-> store, request |-> Ended(request, 200)]
    ELSE IF ~check_elasticsearch_connection
    THEN [status |-> complete_upload_status(store, request.status_id, FALSE),
          request |-> Ended(request, 200)]
    ELSE [status |-> update_upload_status(store, request.status_id, "chunking", 50, -1, -1),
          request |-> [request EXCEPT !.pc = "chunking", !.text = extracted_text]]

\* upload_file after extract_text_from_file: no text, or no engine, completes
\* the status as failed (the response is still a success); otherwise the
\* stage is chunking and index_document is called
after_extract(store, request, extracted_text) ==
    IF extracted_text.empty
    THEN [status |-> complete_upload_status(store, request.status_id, FALSE),
          request |-> Ended(request, 200)]
    ELSE IF ~check_elasticsearch_connection
    THEN [status |-> complete_upload_status(store, request.status_id, FALSE),
          request |-> Ended(request, 200)]
    ELSE [status |-> update_upload_status(store, request.status_id, "chunking", 50, -1, -1),
          request |-> [request EXCEPT !.pc = "chunking", !.text = extracted_text]]

\* extract_text_from_file returns, or raises
upload_extracted ==
    /\ upload.request.pc = "extracting"
    /\ \/ \E extracted_text \in Texts :
            upload' = after_extract(upload.status, upload.request, extracted_text)
       \/ upload' = [status |-> complete_upload_status(upload.status,
                                                       upload.request.status_id, FALSE),
                     request |-> Ended(upload.request, 500)]
    /\ UNCHANGED <<esUp, exists, documents, NotUpload>>

\* index_document returns True or False: upload_file goes on
index_document_returns(request, ret) == [request EXCEPT !.pc = "indexed", !.ret = ret]

\* index_document up to the loop: the index is created when missing, the
\* text is chunked; no chunks, or an exception, returns False; otherwise the
\* stage is indexing and the number of chunks is reported
index_document_start ==
    /\ upload.request.pc = "chunking"
    /\ \E fault \in {"none", "read"} :
         LET request == upload.request
             chunks == chunk_text_by_sentences(request.text)
             ok == esUp /\ fault = "none"
         IN /\ exists' = IF ok THEN exists \cup {INDEX_DOCUMENTS} ELSE exists
            /\ upload' =
                 IF ~ok \/ chunks = <<>>
                 THEN [upload EXCEPT !.request = index_document_returns(request, "False")]
                 ELSE [upload EXCEPT
                         !.status = update_upload_status(@, request.status_id, "indexing",
                                                         60, Len(chunks), -1),
                         !.request = [request EXCEPT !.pc = "indexing",
                                                     !.chunks = chunks,
                                                     !.chunk_idx = 0]]
    /\ UNCHANGED <<esUp, documents, NotUpload>>

\* the faults of one pass of the loop: generate_embedding raises, es.index
\* raises
ChunkFaults == {"none", "embed", "write"}

\* One pass of the loop of index_document: a blank chunk is skipped; an
\* exception of generate_embedding or es.index leaves the loop for the
\* except of the function, which returns False; otherwise the chunk document
\* is written. After the last chunk the function returns True.
index_chunk(request, fault) ==
    LET chunk_idx == request.chunk_idx
        chunk_text == request.chunks[chunk_idx + 1]
        last == chunk_idx + 1 = Len(request.chunks)
        next == [request EXCEPT !.chunk_idx = chunk_idx + 1,
                                !.pc = IF last THEN "indexed" ELSE "indexing",
                                !.ret = IF last THEN "True" ELSE @]
    IN IF strip(chunk_text) = <<>>
       THEN [request |-> next, doc |-> <<>>]
       ELSE IF ~esUp \/ fault # "none"
       THEN [request |-> [index_document_returns(request, "False")
                            EXCEPT !.failed_at = chunk_idx],
             doc |-> <<>>]
       ELSE LET doc == chunk_doc(request.card_id, request.filename, chunk_idx,
                                 chunk_text, Len(request.chunks))
            IN [request |-> [next EXCEPT !.written = Append(@, doc),
                                         !.indexed_count = @ + 1],
                doc |-> <<doc>>]

\* the loop of index_document, one chunk at a time, with its progress update
index_document_chunk ==
    /\ upload.request.pc = "indexing"
    /\ \E fault \in ChunkFaults :
         LET request == upload.request
             r == index_chunk(request, fault)
         IN /\ documents' = IF r.doc = <<>> THEN documents
                            ELSE Put(documents, r.doc[1].id, r.doc[1])
            /\ upload' =
                 [status |-> IF r.doc = <<>> THEN upload.status
                             ELSE update_upload_status(upload.status, request.status_id,
                                    "indexing",
                                    chunk_progress(request.chunk_idx, Len(request.chunks)),
                                    -1, request.chunk_idx + 1),
                  request |-> r.request]
    /\ UNCHANGED <<esUp, exists, NotUpload>>

\* upload_file after index_document returned: its return value is not
\* looked at, the status is completed as done and the response is a success
upload_complete ==
    /\ upload.request.pc = "indexed"
    /\ upload' = [status |-> complete_upload_status(upload.status,
                                                    upload.request.status_id, TRUE),
                  request |-> Ended(upload.request, 200)]
    /\ UNCHANGED <<esUp, exists, documents, NotUpload>>

----------------------------------------------------------------------------
(* company_loader, profile_loader, data_loader: the cached data files *)

\* the three loaders, by the data they load
Loaders == {"companies", "profiles", "data"}

\* What a data file may hold: nothing (the file is absent), text that is not
\* JSON, a JSON object whose list is A, is B, or is null.  For data.json the
\* object itself is the value, and null is the whole file.
FileKinds == {"absent", "garbage", "A", "B", "null"}

\* a Python value of a cache: None, or a list
None == [none |-> TRUE, list |-> <<>>]
List(items) == [none |-> FALSE, list |-> items]

\* json.load(f) and data.get(key, []): the value read from a file that parses
parsed(kind) ==
    CASE kind = "A" -> List(<<"A">>)
      [] kind = "B" -> List(<<"B">>)
      [] kind = "null" -> None

\* the exception open / json.load raise, "" when the file parses
load_error(kind) ==
    CASE kind = "absent" -> "FileNotFoundError"
      [] kind = "garbage" -> "ValueError"
      [] OTHER -> ""

\* if _cache is not None
cache_hit(memo) == ~memo.none

\* a loader's call: what it returns or raises, whether it read the file, and
\* the cache afterwards
load(memo, kind) ==
    IF cache_hit(memo)
    THEN [raised |-> "", read |-> FALSE, ret |-> memo, memo |-> memo]
    ELSE IF load_error(kind) # ""
    THEN [raised |-> load_error(kind), read |-> TRUE, ret |-> None, memo |-> memo]
    ELSE [raised |-> "", read |-> TRUE, ret |-> parsed(kind), memo |-> parsed(kind)]

\* The files as shipped, the three module-level caches, whether a load has
\* returned since the cache was last cleared, and the last call ("after" is
\* whether the call came after such a load)
NoCache ==
    [file |-> [l \in Loaders |-> "A"],
     memo |-> [l \in Loaders |-> None],
     loaded |-> [l \in Loaders |-> FALSE],
     call |-> [op |-> "", loader |-> "", raised |-> "", read |-> FALSE, ret |-> None,
               after |-> FALSE]]

\* what the loaders leave alone
NotLoad == <<esUp, exists, stores, idx, hs, sr, chat, upload>>

\* a loader is called
load_call(l) ==
    LET r == load(cache.memo[l], cache.file[l])
    IN /\ cache' = [cache EXCEPT
                      !.memo[l] = r.memo,
                      !.loaded[l] = @ \/ r.raised = "",
                      !.call = [op |-> "load", loader |-> l, raised |-> r.raised,
                                read |-> r.read, ret |-> r.ret,
                                after |-> cache.loaded[l]]]
       /\ UNCHANGED NotLoad

load_companies == load_call("companies")

load_profiles == load_call("profiles")

load_data == load_call("data")

\* clear_cache() of one of the three modules
clear_cache ==
    \E l \in Loaders :
      /\ cache' = [cache EXCEPT
                     !.memo[l] = None,
                     !.loaded[l] = FALSE,
                     !.call = [op |-> "clear_cache", loader |-> l, raised |-> "",
                               read |-> FALSE, ret |-> None, after |-> FALSE]]
      /\ UNCHANGED NotLoad

\* a data file is replaced on disk
file_replaced ==
    \E l \in Loaders, kind \in FileKinds :
      /\ kind # cache.file[l]
      /\ cache' = [cache EXCEPT !.file[l] = kind]
      /\ UNCHANGED NotLoad

----------------------------------------------------------------------------
(* Initial state: the process has started, the engine holds nothing yet *)

NoCall == [called |-> FALSE, op |-> "", arg |-> "", note |-> <<>>, ret |-> FALSE,
           before |-> <<>>]

Init ==
    /\ esUp \in BOOLEAN
    /\ exists = {}
    /\ companies = <<>>
    /\ persons = <<>>
    /\ notes = <<>>
    /\ documents = <<>>
    /\ idx = NoCall
    /\ hs = NoCall
    /\ sr = NoCall
    /\ chat = NoChat
    /\ upload = NoUpload
    /\ cache = NoCache

----------------------------------------------------------------------------
(* Document retrieval: hybrid_search *)

NextHybrid ==
    \/ EngineToggle
    \/ create_index(INDEX_DOCUMENTS)
    \/ hybrid_search

SpecHybrid == Init /\ [][NextHybrid]_vars

\* the scores of the hits of card c in a response
ScoresOf(hits, c) == {hits[k].score : k \in {k \in DOMAIN hits : hits[k].card_id = c}}

MaxOf(S) == CHOOSE m \in S : \A x \in S : x <= m

\* C2: hybrid_search returns at most one result per card_id, and the score of
\* that result is the maximum score among the hits that share its card_id.
C2_OnePerCardWithMaxScore ==
    hs.called =>
        LET hits == hs.answer.hits
            r == hs.ret
        IN /\ \A i, j \in DOMAIN r : r[i].card_id = r[j].card_id => i = j
           /\ \A i \in DOMAIN r :
                /\ ScoresOf(hits, r[i].card_id) # {}
                /\ r[i].score = MaxOf(ScoresOf(hits, r[i].card_id))

\* C2's case: two chunks of one card hit with different scores, the better one
\* second, and the card is in the returned list.
C2_Witness ==
    /\ hs.called
    /\ \E a, b \in DOMAIN hs.answer.hits :
         /\ a < b
         /\ hs.answer.hits[a].card_id = hs.answer.hits[b].card_id
         /\ hs.answer.hits[a].score < hs.answer.hits[b].score
         /\ \E i \in DOMAIN hs.ret : hs.ret[i].card_id = hs.answer.hits[a].card_id

\* the cards that have a hit in a response
CardsOf(hits) == {hits[k].card_id : k \in DOMAIN hits}

\* C3: the list hybrid_search returns is sorted by score, descending, and has
\* at most limit entries; the truncation comes after the grouping: the list
\* holds min(limit, number of cards hit) cards, and no card left out scores
\* higher than a card kept.
C3_SortedAndTruncatedAfterGrouping ==
    hs.called =>
        LET hits == hs.answer.hits
            r == hs.ret
            kept == {r[i].card_id : i \in DOMAIN r}
        IN /\ \A i, j \in DOMAIN r : i < j => r[i].score >= r[j].score
           /\ Len(r) <= hs.limit
           /\ Len(r) = Min(hs.limit, Cardinality(CardsOf(hits)))
           /\ \A c \in CardsOf(hits) \ kept : \A i \in DOMAIN r :
                MaxOf(ScoresOf(hits, c)) <= r[i].score

\* C3's case: more cards are hit than the limit allows, the best hit comes
\* last in the response, and the list returned is cut to the limit.
C3_Witness ==
    /\ hs.called
    /\ Cardinality(CardsOf(hs.answer.hits)) > hs.limit
    /\ Len(hs.ret) = hs.limit
    /\ LET n == Len(hs.answer.hits)
       IN \A k \in 1..(n - 1) : hs.answer.hits[k].score < hs.answer.hits[n].score

\* C11: when generating the query embedding raises or gives an empty vector,
\* hybrid_search still runs the search, with the keyword-only body, and
\* returns the grouped hits of the answer: the failure does not end the query.
C11_EmbeddingFailureDegradesToKeyword ==
    (hs.called /\ hs.embedding \in {"empty", "raise"}) =>
        /\ hs.searched
        /\ hs.body = "keyword"
        /\ (hs.ret = <<>>) = (hs.answer.raised \/ hs.answer.hits = <<>>)
        /\ \A i \in DOMAIN hs.ret :
             \E k \in DOMAIN hs.answer.hits : hs.answer.hits[k] = hs.ret[i]

\* C11's case: generate_embedding raised and the search returned a hit.
C11_Witness ==
    /\ hs.called
    /\ hs.embedding = "raise"
    /\ hs.ret # <<>>

----------------------------------------------------------------------------
(* The index gateway and the notes service *)

NextIndex ==
    \/ EngineToggle
    \/ index_company_card
    \/ index_person_card
    \/ save_note
    \/ save_card_note
    \/ get_note
    \/ delete_note
    \/ delete_card_from_index

SpecIndex == Init /\ [][NextIndex]_vars

\* every document of a store is filed under its own, non-empty id
IdsNonEmpty(store) ==
    \A k \in DOMAIN store : Truthy(k) /\ store[k].id = k

\* a call of index_company_card / index_person_card with a missing or empty id
RejectedCard(call) ==
    /\ call.called
    /\ call.op \in {"index_company_card", "index_person_card"}
    /\ ~Truthy(call.arg)

\* C4: index_company_card / index_person_card of a record whose id is missing
\* or empty returns False and writes no document to companies or persons;
\* every document of these two indices has a non-empty id.
C4_RecordsWithoutIdRejected ==
    /\ [](IdsNonEmpty(companies) /\ IdsNonEmpty(persons))
    /\ [][RejectedCard(idx') =>
            idx'.ret = FALSE /\ companies' = companies /\ persons' = persons]_vars

\* C4's case: a record without id was handed to the indexer of an index that
\* already holds a document.
C4_Witness ==
    /\ RejectedCard(idx)
    /\ idx.arg = PyNone
    /\ companies # <<>>
    /\ persons # <<>>

\* a call of save_note / save_card_note with an empty or whitespace-only text
BlankSave(call) ==
    /\ call.called
    /\ call.op \in {"save_note", "save_card_note"}
    /\ IsBlank(call.note)

TextSave(call) ==
    /\ call.called
    /\ call.op \in {"save_note", "save_card_note"}
    /\ ~IsBlank(call.note)

\* C6: the notes index holds at most one note per card_id; the id of a note is
\* note_<card_id>; a save that succeeds leaves the saved text as the only note
\* of the card, whatever was stored before.
C6_OneNotePerCard ==
    /\ \A k1, k2 \in DOMAIN notes : notes[k1].card_id = notes[k2].card_id => k1 = k2
    /\ \A k \in DOMAIN notes : k = "note_" \o notes[k].card_id /\ notes[k].id = k
    /\ TextSave(idx) /\ idx.ret =>
         /\ Cardinality({k \in DOMAIN notes : notes[k].card_id = idx.arg}) = 1
         /\ notes["note_" \o idx.arg].note_text = idx.note

\* C6's case: a card that had a note was saved another text, and a second
\* card has its own note.
C6_Witness ==
    /\ TextSave(idx)
    /\ idx.ret
    /\ idx.before # <<>>
    /\ idx.before # idx.note
    /\ Cardinality(DOMAIN notes) = 2

\* a call of delete_card_from_index for a company or a person that returned
\* True
EntityDeleted(call) ==
    /\ call.called
    /\ call.op = "delete_card_from_index"
    /\ call.note \in {<<"company">>, <<"person">>}
    /\ call.ret

\* C13: after delete_card_from_index(card_id, 'company' | 'person') no note of
\* that card_id is left in the notes index.
C13_NoNoteOutlivesItsCard ==
    EntityDeleted(idx) => \A k \in DOMAIN notes : notes[k].card_id # idx.arg


\* a call of save_note that returned False
FailedSave(call) == call.called /\ call.op = "save_note" /\ ~call.ret

\* C27: when save_note fails (engine unreachable, card found in neither
\* collection, embedding or indexing raising) it returns False and the notes
\* are unchanged: the note stored before is still what get_note returns.
C27_FailedSaveChangesNothing ==
    /\ [][FailedSave(idx') => notes' = notes]_vars
    /\ [](FailedSave(idx) =>
            /\ stored_note(idx.arg) = idx.before
            /\ check_elasticsearch_connection =>
                 get_note_result(idx.arg, "none") = idx.before)

\* C27's case: a card had a note, a save of another text for it failed, and
\* the engine still answers get_note with the note stored before.
C27_Witness ==
    /\ FailedSave(idx)
    /\ idx.before # <<>>
    /\ ~IsBlank(idx.note)
    /\ idx.note # idx.before
    /\ check_elasticsearch_connection
    /\ get_note_result(idx.arg, "none") = idx.before

\* the call repeats the save the last call made, and both returned True
SameSaveAgain(last, call) ==
    /\ TextSave(last) /\ last.ret
    /\ TextSave(call) /\ call.ret
    /\ call.op = last.op /\ call.arg = last.arg /\ call.note = last.note

----------------------------------------------------------------------------
(* The chat pipeline *)

NextChat ==
    \/ EngineToggle
    \/ create_all_indices
    \/ chat_call
    \/ chat_plan
    \/ chat_answer

SpecChat == Init /\ [][NextChat]_vars

\* a chat that got past the plan: the contexts were computed
Retrieved == chat.pc \in {"synthesis", "done"} /\ ~chat.plan.raised

\* a context is empty after trimming whitespace
Trimmed(context) == strip(context)

\* C1: perform_web_search is invoked exactly once when the entity, notes and
\* document contexts are all empty after trimming and the web query has a
\* length greater than 3; in every other case it is not invoked at all.
C1_WebSearchOnlyAsFallback ==
    LET got == chat.got
        q == got.web_query
        allEmpty == /\ Trimmed(got.entity_context) = <<>>
                    /\ Trimmed(got.notes_context) = <<>>
                    /\ Trimmed(got.doc_context) = <<>>
        longEnough == \/ q.t = "str" /\ Len(q.s) > 3
                      \/ q.t = "list" /\ q.n > 3
    IN Len(got.web_calls) = (IF Retrieved /\ got.error = "" /\ allEmpty /\ longEnough
                             THEN 1 ELSE 0)

\* C1's case: a chat whose only internal evidence is a note, and whose web
\* query is long enough, made no web call.
C1_Witness ==
    /\ Retrieved
    /\ chat.got.entity_context = <<>>
    /\ chat.got.doc_context = <<>>
    /\ chat.got.notes_context # <<>>
    /\ chat.got.web_query = JStr("Apple CEO")
    /\ chat.got.web_calls = <<>>

\* C7: agent_generate_queries never raises; when the model cannot be built,
\* the LLM call fails or its answer does not parse, the plan it returns has
\* the raw user question in all three fields.
C7_PlanningNeverRaises ==
    chat.pc # "idle" =>
        /\ ~chat.plan.raised
        /\ (~chat.keySet \/ (Retrieved /\ (chat.llm.raised \/ chat.plan.fellBack)))
              => chat.plan.value = JObject(JStr(chat.message), JStr(chat.message),
                                           JStr(chat.message))

\* C8: every plan agent_generate_queries returns is a flat record whose three
\* fields entity_keywords, document_query and web_query are strings.
C8_PlanIsThreeStrings ==
    Retrieved =>
        /\ chat.plan.value.kind = "dict"
        /\ chat.plan.value.entity_keywords.t = "str"
        /\ chat.plan.value.document_query.t = "str"
        /\ chat.plan.value.web_query.t = "str"

\* C9: chat_with_ai never raises to its caller; when a stage raised, the call
\* returns the apology string that ends with the detail of the error.
C9_ChatNeverRaises ==
    /\ chat.result.kind # "raised"
    /\ chat.pc = "done" =>
         /\ chat.result.kind = "returned"
         /\ chat.error # "" =>
              chat.result.text = "I encountered an error. Details: " \o chat.error
         /\ (chat.plan.raised \/ chat.got.error # "") => chat.error # ""

\* C9's case: the synthesis call raised after a retrieval that went well, and
\* the chat returned.
C9_Witness ==
    /\ chat.pc = "done"
    /\ chat.got.error = ""
    /\ ~chat.plan.raised
    /\ chat.error = LlmDown

\* a chat whose context was assembled and sent to the synthesis model
Assembled == Retrieved /\ chat.got.error = ""

\* the labels of the four blocks, in the order of the context
BlockLabels ==
    <<"=== DATABASE RECORDS (Internal - High Confidence) ===",
      "=== INTERNAL NOTES (Meetings) ===",
      "=== DOCUMENTS (Uploaded Files - Context Only) ===",
      "=== WEB SEARCH RESULTS (Public Knowledge) ===">>

\* the placeholders of the four blocks
Placeholders ==
    <<"No direct matches.", "No notes found.", "No relevant files.", "No web results.">>

\* C12: the assembled context is the four labelled blocks in the order
\* database records, internal notes, documents, web results; a block whose
\* source is empty holds its placeholder, any other block holds its source;
\* when the web was searched the three internal blocks hold their placeholder.
C12_FourBlocksWithPlaceholders ==
    Assembled =>
        LET sources == <<chat.got.entity_context, chat.got.notes_context,
                         chat.got.doc_context, chat.got.web_context>>
            blocks == chat.final_context
        IN /\ Len(blocks) = 4
           /\ \A i \in 1..4 :
                /\ blocks[i].label = BlockLabels[i]
                /\ Trimmed(sources[i]) = <<>> => blocks[i].body = <<Placeholders[i]>>
                /\ Trimmed(sources[i]) # <<>> => blocks[i].body = sources[i]
           /\ chat.got.web_calls # <<>> =>
                \A i \in 1..3 : blocks[i].body = <<Placeholders[i]>>

\* C12's case: nothing was found inside, the web was searched and answered.
C12_Witness ==
    /\ Assembled
    /\ chat.got.web_calls # <<>>
    /\ chat.got.web_context # <<>>
    /\ chat.final_context[4].body = chat.got.web_context
    /\ chat.final_context[1].body = <<"No direct matches.">>

\* the message of a turn, whatever its role: the user's as a human message,
\* any other as a message of the assistant
AnyTurnReplayed(turn) ==
    [type |-> IF turn.role = "user" THEN "human" ELSE "ai",
     content |-> IF turn.content = PyNone THEN "" ELSE turn.content]

\* the turns of the user and of the assistant, in their order
Spoken(history) == SelectSeq(history, LAMBDA turn : turn.role \in {"user", "assistant"})

\* C19 as claimed: the messages sent are the system instruction, then every
\* turn of conversation_history in its order, then the new user message.
C19_EveryTurnReplayed ==
    Assembled =>
        /\ Len(chat.messages) = Len(chat.history) + 2
        /\ \A i \in DOMAIN chat.history :
             chat.messages[i + 1] = AnyTurnReplayed(chat.history[i])

\* C19, amended: the messages sent are the system instruction, then every
\* turn of conversation_history whose role is user or assistant, in the
\* original order and with its content, then the new user message; a turn
\* of another role is left out.
C19_SpokenTurnsReplayed ==
    Assembled =>
        LET spoken == Spoken(chat.history)
            n == Len(chat.messages)
        IN /\ n = Len(spoken) + 2
           /\ chat.messages[1].type = "system"
           /\ chat.messages[1].content = chat.final_context
           /\ \A i \in DOMAIN spoken : chat.messages[i + 1] = AnyTurnReplayed(spoken[i])
           /\ chat.messages[n] = [type |-> "human", content |-> chat.message]

\* C19's case: a history of a user turn and an assistant turn was replayed
\* before the new message.
C19_Witness ==
    /\ Assembled
    /\ Len(chat.history) = 2
    /\ Len(chat.messages) = 4
    /\ chat.messages[2].type = "human"
    /\ chat.messages[3] = [type |-> "ai", content |-> "a1"]


\* C29: when the engine is unreachable during chat_with_ai, the entity, notes
\* and document contexts are all empty, so the web is searched whenever the
\* web query has a length greater than 3.
C29_UnreachableIndexFallsBackToWeb ==
    (Retrieved /\ chat.got.error # NoAttributeGet /\ ~chat.got.up) =>
        LET got == chat.got
            q == got.web_query
        IN /\ got.entity_context = <<>>
           /\ got.notes_context = <<>>
           /\ got.doc_context = <<>>
           /\ ((q.t = "str" /\ Len(q.s) > MinWebQueryLen)
                  \/ (q.t = "list" /\ q.n > MinWebQueryLen))
                 => got.web_calls = <<q>>

\* C29's case: the indices exist, the engine did not answer during the chat,
\* and the web was searched with the plan's web query.
C29_Witness ==
    /\ Retrieved
    /\ ~chat.got.up
    /\ exists # {}
    /\ chat.got.web_calls = <<JStr("Apple CEO")>>
    /\ chat.got.web_context # <<>>
    /\ chat.pc = "synthesis"

----------------------------------------------------------------------------
(* The searches over the four indices *)

\* The state after startup: the indices were created when the engine was
\* reachable, and the cards of the data files were indexed.
InitTables ==
    /\ esUp \in BOOLEAN
    /\ exists \in {{}, {ALL_INDICES[i] : i \in DOMAIN ALL_INDICES}}
    /\ companies \in {<<>>} \cup {Put(<<>>, "c1", card_doc([id |-> "c1", name |-> n], "company")) :
                                  n \in {PyNone, "Acme"}}
    /\ persons \in {<<>>, Put(<<>>, "p1", card_doc([id |-> "p1", name |-> "Ann"], "person"))}
    /\ (exists = {} => companies = <<>> /\ persons = <<>>)
    /\ notes = <<>>
    /\ documents = <<>>
    /\ idx = NoCall
    /\ hs = NoCall
    /\ sr = NoCall
    /\ chat = NoChat
    /\ upload = NoUpload
    /\ cache = NoCache

NextTables ==
    \/ EngineToggle
    \/ create_all_indices
    \/ search_tables
    \/ search_cards

SpecTables == InitTables /\ [][NextTables]_vars

\* the modes of retrieval
Modes == {"persons", "companies", "notes", "documents"}

\* the search of a mode failed: es.search raised
Failed(mode) == sr.answers[mode].raised

\* the hits of a mode whose search went through
Found(mode) == sr.answers[mode].hits

\* C10: the failure of the search of one mode leaves that mode without results
\* and nothing else: the call returns, and every mode whose search went through
\* contributes the results of its hits.
C10_ModeFailuresAreIsolated ==
    /\ sr.called => ~sr.ret.raised
    /\ (sr.called /\ sr.op = "search_standard_tables" /\ sr.query # "" /\ sr.up) =>
         /\ sr.ret.entities =
              join(<<"\n", "\n">>,
                   (IF Failed("persons") THEN <<>>
                    ELSE [i \in DOMAIN Found("persons") |->
                            <<"PERSON:", " ", Found("persons")[i]>>])
                   \o (IF Failed("companies") THEN <<>>
                       ELSE [i \in DOMAIN Found("companies") |->
                               <<"COMPANY:", " ", Found("companies")[i]>>]))
         /\ Failed("notes") => sr.ret.notes_text = <<>>
         /\ ~Failed("notes") => (sr.ret.notes_text = <<>>) = (Found("notes") = <<>>)
    /\ (sr.called /\ sr.op = "search_cards" /\ sr.query # "" /\ sr.up) =>
         /\ \A mode \in Modes : Failed(mode) => sr.ret[mode] = <<>>
         /\ \A mode \in {"persons", "companies"} :
              (~Failed(mode) /\ \A i \in DOMAIN Found(mode) : Found(mode)[i].name # PyNone)
                 => sr.ret[mode] = Found(mode)
         /\ ~Failed("notes") =>
              /\ \A i \in DOMAIN sr.ret.notes : sr.ret.notes[i].id = Found("notes")[i].id
              /\ (\A k \in DOMAIN companies : companies[k].name # PyNone)
                    => Len(sr.ret.notes) = Len(Found("notes"))
         /\ ~Failed("documents") =>
              \A i \in DOMAIN sr.ret.documents :
                 \E k \in DOMAIN Found("documents") :
                    Found("documents")[k].card_id = sr.ret.documents[i].card_id

\* C10's case: in one call of search_cards the search of the companies failed,
\* and the persons and the notes that were found are returned.
C10_Witness ==
    /\ sr.called
    /\ sr.op = "search_cards"
    /\ Failed("companies")
    /\ ~Failed("persons")
    /\ sr.ret.companies = <<>>
    /\ sr.ret.persons # <<>>
    /\ sr.ret.notes # <<>>

\* the tier of a should clause: phrase-prefix, fuzzy or exact
Tier(clause) ==
    IF clause.type \in {"phrase_prefix", "match_phrase_prefix"} THEN "phrase-prefix"
    ELSE IF clause.fuzzy THEN "fuzzy" ELSE "exact"

\* the tiers of a search body with their boosts
Tiers(body) ==
    {[tier |-> Tier(body.should[i]), boost |-> body.should[i].boost] :
        i \in DOMAIN body.should}

\* C20: search_notes_es puts on the note content the three tiers of the
\* entity search: phrase-prefix with boost 3.0, exact with boost 2.0, fuzzy
\* with boost 1.0, as should clauses of which at least one must match.
C20_NotesUseTheEntityTiers ==
    (sr.called /\ sr.op = "search_cards" /\ sr.query # "" /\ sr.up) =>
        /\ Tiers(sr.bodies.notes) = {[tier |-> "phrase-prefix", boost |-> 30],
                                     [tier |-> "exact", boost |-> 20],
                                     [tier |-> "fuzzy", boost |-> 10]}
        /\ Tiers(sr.bodies.notes) = Tiers(sr.bodies.companies)
        /\ sr.bodies.notes.minimum_should_match = 1
        /\ \A i \in DOMAIN sr.bodies.notes.should :
             sr.bodies.notes.should[i].fields = <<"content">>

----------------------------------------------------------------------------
(* The upload pipeline: upload_file and index_document *)

\* the steps of the request under way
UploadStep ==
    \/ upload_save
    \/ upload_saved
    \/ upload_extracted
    \/ index_document_start
    \/ index_document_chunk
    \/ upload_complete

NextUpload ==
    \/ EngineToggle
    \/ upload_file
    \/ UploadStep

SpecUpload == Init /\ [][NextUpload]_vars

\* a request handler that was started runs on to its return or its raise
SpecUploadFair == SpecUpload /\ WF_vars(UploadStep)

\* index_document has returned for the request under way
IndexDocumentReturned == upload.request.pc = "indexed"

\* the chunk_index values of the chunk documents written by the call, in the
\* order they were written
written_indexes ==
    [i \in DOMAIN upload.request.written |-> upload.request.written[i].chunk_index]

\* C14: the chunk documents written by one index_document call that split the
\* text into N chunks have pairwise distinct ids, and their chunk_index values
\* are exactly 0..N-1 in order with no gaps, N being the total_chunks stored
\* on each of them.
C14_ChunkIndexesAreZeroToN ==
    (IndexDocumentReturned /\ upload.request.chunks # <<>>) =>
        LET written == upload.request.written
            N == Len(upload.request.chunks)
        IN /\ \A i, j \in DOMAIN written : i # j => written[i].id # written[j].id
           /\ \A i \in DOMAIN written : written[i].total_chunks = N
           /\ written_indexes = [i \in 1..N |-> i - 1]

\* C15: over the life of one upload the progress reported for its status id
\* never decreases, and every value lies in 0..100.
C15_ProgressNeverDecreases ==
    /\ [](\A i \in DOMAIN upload.status : upload.status[i].progress \in 0..100)
    /\ [][\A i \in DOMAIN upload.status :
            upload.status'[i].progress >= upload.status[i].progress]_vars

\* C15's case: an upload went through every stage: its chunks were indexed
\* one by one, each with its progress update, and its status was completed.
C15_Witness ==
    /\ upload.request.pc = "done"
    /\ upload.request.indexed_count = MaxChunks
    /\ upload.status[upload.request.status_id].progress = 100
    /\ upload.status[upload.request.status_id].chunks_indexed = MaxChunks

\* the place of a stage in the order of the stages; done and failed are last
StageRank(stage) ==
    CASE stage = "uploading" -> 1
      [] stage = "extracting" -> 2
      [] stage = "chunking" -> 3
      [] stage = "indexing" -> 4
      [] stage \in {"done", "failed"} -> 5

\* the status has reached done or failed
Terminal(i) == i \in DOMAIN upload.status /\ upload.status[i].stage \in {"done", "failed"}

\* C16: a request that created a status reports its stages only in the order
\* uploading, extracting, chunking, indexing, a terminal status is never
\* changed again, and on every path the status eventually is done or failed.
C16_StagesInOrderUntilTerminal ==
    /\ [][\A i \in DOMAIN upload.status :
            /\ StageRank(upload.status'[i].stage) >= StageRank(upload.status[i].stage)
            /\ Terminal(i) => upload.status'[i] = upload.status[i]]_vars
    /\ \A i \in 1..MaxUploads : (i \in DOMAIN upload.status) ~> Terminal(i)

\* C16's case: one request ended with its status failed, and a later one went
\* through the indexing stage and ended with its status done.
C16_Witness ==
    /\ Len(upload.status) = 2
    /\ upload.status[1].stage = "failed"
    /\ upload.status[2].stage = "done"
    /\ upload.status[2].chunks_total > 0
    /\ upload.request.pc = "done"

\* C17: a failure while embedding or indexing one chunk does not prevent the
\* remaining chunks of the document from being indexed: once index_document
\* has returned, every non-blank chunk after the failed one was written.
C17_ChunkFailureIsAbsorbed ==
    (IndexDocumentReturned /\ upload.request.failed_at >= 0) =>
        \A chunk_idx \in (upload.request.failed_at + 1)..(Len(upload.request.chunks) - 1) :
            strip(upload.request.chunks[chunk_idx + 1]) # <<>> =>
                \E i \in DOMAIN upload.request.written :
                    upload.request.written[i].chunk_index = chunk_idx
\* C22: upload_file completes the status as done only if index_document
\* returned True; when index_document fails or produces no chunks the status
\* ends as failed.
C22_DoneOnlyIfIndexed ==
    (upload.request.pc = "done" /\ upload.request.ret # "none") =>
        (upload.status[upload.request.status_id].stage = "done")
            = (upload.request.ret = "True")

\* the chunk documents stored for a card and a file name
StoredChunks(card_id, filename) ==
    {k \in DOMAIN documents :
        documents[k].card_id = card_id /\ documents[k].filename = filename}

\* C23: after any sequence of index_document calls that returned, the chunks
\* stored for the same (card_id, filename) carry the same total_chunks and
\* their chunk_index values are exactly 0..total_chunks-1.
C23_NoStaleChunks ==
    upload.request.pc \in {"idle", "done"} =>
        \A k \in DOMAIN documents :
            LET same == StoredChunks(documents[k].card_id, documents[k].filename)
            IN /\ \A j \in same : documents[j].total_chunks = documents[k].total_chunks
               /\ {documents[j].chunk_index : j \in same}
                     = 0..(documents[k].total_chunks - 1)

\* C24: two different triples (card_id, filename, chunk index) never produce
\* the same chunk id, so indexing one document never overwrites a chunk of a
\* different document or card.
C24_ChunkIdIsInjective ==
    [][\A k \in DOMAIN documents \cap DOMAIN documents' :
          /\ documents'[k].card_id = documents[k].card_id
          /\ documents'[k].filename = documents[k].filename]_vars

\* C30: the chunks_indexed value reported to the upload status equals the
\* number of chunks written to the index so far, never exceeds chunks_total,
\* and equals chunks_total after a run that returned True.
C30_ChunksIndexedCountsWrites ==
    upload.request.pc \in {"indexing", "indexed"} =>
        LET status == upload.status[upload.request.status_id]
        IN /\ status.chunks_indexed = upload.request.indexed_count
           /\ status.chunks_indexed = Len(upload.request.written)
           /\ status.chunks_indexed <= status.chunks_total
           /\ upload.request.ret = "True" => status.chunks_indexed = status.chunks_total

----------------------------------------------------------------------------
(* The loaders and their caches *)

NextLoad ==
    \/ load_companies
    \/ load_profiles
    \/ load_data
    \/ clear_cache
    \/ file_replaced

SpecLoad == Init /\ [][NextLoad]_vars

\* C18: once a loader has returned, every later call of it returns the cached
\* value without reading the file again, until clear_cache is called.
C18_CachedUntilCleared ==
    (cache.call.op = "load" /\ cache.call.after) =>
        /\ ~cache.call.read
        /\ cache.call.raised = ""
        /\ cache.call.ret = cache.memo[cache.call.loader]

----------------------------------------------------------------------------
(* search_companies_es / search_persons_es: the ranking of the hits *)

MaxSim == 4      \* the engine's similarity of a record to a clause is 0..MaxSim

\* the records of the index that is searched
RankedIds == {"r1", "r2"}

\* The similarity the engine computes between a record and each should clause
\* of the body (phrase-prefix, best-fields, fuzzy), 0 when the clause does not
\* match the record.  Fuzziness AUTO includes edit distance 0: what matches
\* the best_fields clause matches the fuzzy one.  The samples: no match, a
\* weak and a strong fuzzy-only match, a prefix-only match, a weak match of
\* the words, and weak and strong matches of all three clauses.
Similarities ==
    {<<0, 0, 0>>, <<0, 0, 1>>, <<0, 0, MaxSim>>, <<1, 0, 0>>, <<0, 1, 1>>,
     <<1, 1, 1>>, <<MaxSim, MaxSim, MaxSim>>}

\* the clauses of the body that match a record
matched(body, sim) == {i \in DOMAIN body.should : sim[i] > 0}

\* _score of a bool query: the sum over the matching should clauses of the
\* clause's boost times the similarity (boosts are in tenths)
RECURSIVE weighted(_, _, _)
weighted(body, sim, n) ==
    IF n = 0 THEN 0
    ELSE weighted(body, sim, n - 1) + body.should[n].boost * sim[n]

es_score(body, sim) == weighted(body, sim, Len(body.should))

\* the hits of es.search for the body: the records that match at least
\* minimum_should_match clauses, by descending _score; the engine breaks ties
\* as it likes (order is the order it falls back on)
es_hits(body, sims, order) ==
    LET found == SelectSeq(order,
                     LAMBDA id : Cardinality(matched(body, sims[id]))
                                    >= body.minimum_should_match)
    IN sort_by_score([i \in DOMAIN found |->
                        [id |-> found[i], card_id |-> found[i],
                         score |-> es_score(body, sims[found[i]])]])

\* search_companies_es / search_persons_es for a query that is not blank: the
\* hits in the engine's order, each with its _score; [] when the index is
\* missing or the engine unreachable
entity_search(op, index) ==
    \E sims \in [RankedIds -> Similarities], order \in {<<"r1", "r2">>, <<"r2", "r1">>} :
      LET answer == IF esUp /\ index \in exists
                    THEN [raised |-> FALSE,
                          hits |-> Take(es_hits(entity_search_body, sims, order), SearchLimit)]
                    ELSE [raised |-> TRUE, hits |-> <<>>]
      IN /\ sr' = [called |-> TRUE, op |-> op, sims |-> sims, answer |-> answer,
                   ret |-> search_es(answer)]
         /\ UNCHANGED <<esUp, exists, stores, NotSearch>>

search_companies_es == entity_search("search_companies_es", INDEX_COMPANIES)

search_persons_es == entity_search("search_persons_es", INDEX_PERSONS)

NextRank ==
    \/ EngineToggle
    \/ create_all_indices
    \/ search_companies_es
    \/ search_persons_es

SpecRank == Init /\ [][NextRank]_vars

\* the clauses that match the record are fuzzy ones only
FuzzyOnly(sim) ==
    /\ matched(entity_search_body, sim) # {}
    /\ \A i \in matched(entity_search_body, sim) : entity_search_body.should[i].fuzzy

\* the record matches a phrase-prefix or best-fields clause without fuzziness
ExactMatch(sim) ==
    \E i \in matched(entity_search_body, sim) : ~entity_search_body.should[i].fuzzy

\* the place of a record in the results, 0 when it is not among them
PlaceOf(id) == FirstIndex({i \in DOMAIN sr.ret : sr.ret[i].id = id})

\* C21: a record that matches only through the fuzzy clause is still
\* returned, and it is ranked below every record that also matches an exact
\* (phrase-prefix or best-fields) clause.
C21_FuzzyOnlyRanksBelowExact ==
    (sr.called /\ ~sr.answer.raised) =>
        \A a \in RankedIds :
            FuzzyOnly(sr.sims[a]) =>
                /\ PlaceOf(a) > 0
                /\ \A b \in RankedIds :
                      ExactMatch(sr.sims[b]) => PlaceOf(b) > 0 /\ PlaceOf(b) < PlaceOf(a)

----------------------------------------------------------------------------
(* rebuild_index, startup_event and delete_card_from_index on a filled index *)

\* the record rebuild_index indexes for an item of the companies file
company_of(item) == [id |-> "c1", name |-> IF item = "A" THEN "Acme" ELSE PyNone]

\* the record rebuild_index builds for a profile: person_<linkedin_username>
person_of(item) == [id |-> "p1", name |-> "Ann"]

\* for record in records: index_*_card(record), on an index that exists
RECURSIVE index_all(_, _, _, _)
index_all(store, index, records, card_type) ==
    IF records = <<>> THEN store
    ELSE index_card(index_all(store, index, SubSeq(records, 1, Len(records) - 1), card_type),
                    index, records[Len(records)], card_type, "none").store

\* the records a loader gives to rebuild_index: none when the loader raised
\* or returned None (the for loop raises, the except notes the error)
loaded_records(r) == IF r.raised # "" \/ r.ret.none THEN <<>> ELSE r.ret.list

\* the indices create_index may fail to create during a rebuild
Unmade == {{}, {INDEX_NOTES, INDEX_DOCUMENTS}}

\* rebuild_index had it recreated the companies and the persons index only
rebuild_index_result_entities_only(memo, at, unmade) ==
    LET loaded_companies == load(memo["companies"], cache.file["companies"])
        loaded_profiles == load(memo["profiles"], cache.file["profiles"])
    IN [aborted |-> FALSE,
        exists |-> {ALL_INDICES[i] : i \in DOMAIN ALL_INDICES} \ unmade,
        companies |-> index_all(<<>>, INDEX_COMPANIES,
                        [i \in DOMAIN loaded_records(loaded_companies) |->
                            company_of(loaded_records(loaded_companies)[i])], "company"),
        persons |-> index_all(<<>>, INDEX_PERSONS,
                        [i \in DOMAIN loaded_records(loaded_profiles) |->
                            person_of(loaded_records(loaded_profiles)[i])], "person"),
        notes |-> notes,
        documents |-> documents,
        memo |-> [memo EXCEPT !["companies"] = loaded_companies.memo,
                              !["profiles"] = loaded_profiles.memo]]

\* rebuild_index(): every index of ALL_INDICES is deleted and created again,
\* then the companies and the profiles of the data files are indexed (memo
\* is what the loaders have cached).  at is the place in ALL_INDICES where
\* es.indices.delete raises (0: nowhere): the indices before it are empty
\* then, the others are as they were, and nothing is indexed.  Unreachable,
\* the engine raises at the first index.  unmade are the indices for which
\* create_index returned False: the error is noted and the loop goes on.
rebuild_index_result(memo, at, unmade) ==
    LET stop == IF ~esUp THEN 1 ELSE at
        emptied(i, store) == IF stop = 0 \/ i < stop THEN <<>> ELSE store
        loaded_companies == load(memo["companies"], cache.file["companies"])
        loaded_profiles == load(memo["profiles"], cache.file["profiles"])
    IN IF stop # 0
       THEN [aborted |-> TRUE,
             exists |-> exists \cup {ALL_INDICES[i] : i \in 1..(stop - 1)},
             companies |-> emptied(1, companies), persons |-> emptied(2, persons),
             notes |-> emptied(3, notes), documents |-> emptied(4, documents),
             memo |-> memo]
       ELSE [aborted |-> FALSE,
             exists |-> {ALL_INDICES[i] : i \in DOMAIN ALL_INDICES} \ unmade,
             companies |-> index_all(<<>>, INDEX_COMPANIES,
                             [i \in DOMAIN loaded_records(loaded_companies) |->
                                 company_of(loaded_records(loaded_companies)[i])], "company"),
             persons |-> index_all(<<>>, INDEX_PERSONS,
                             [i \in DOMAIN loaded_records(loaded_profiles) |->
                                 person_of(loaded_records(loaded_profiles)[i])], "person"),
             notes |-> <<>>,
             documents |-> <<>>,
             memo |-> [memo EXCEPT !["companies"] = loaded_companies.memo,
                                   !["profiles"] = loaded_profiles.memo]]

\* the stores, the indices and the caches after rebuild_index; the call
\* record says whether the rebuild went through and what note c1 had
rebuilt(op, r) ==
    /\ exists' = r.exists
    /\ companies' = r.companies
    /\ persons' = r.persons
    /\ notes' = r.notes
    /\ documents' = r.documents
    /\ cache' = [cache EXCEPT !.memo = r.memo]
    /\ idx' = Call(op, "", <<>>, ~r.aborted, stored_note("c1"))
    /\ UNCHANGED <<esUp, hs, sr, chat, upload>>

\* rebuild_index() is called (POST /api/rebuild-index answers 503 without
\* calling it when the engine is unreachable, which changes as little)
rebuild_index ==
    \E at \in 0..Len(ALL_INDICES), unmade \in Unmade :
        rebuilt("rebuild_index", rebuild_index_result(cache.memo, at, unmade))

\* The process starts again, with empty caches: when the engine answers,
\* create_all_indices(), then rebuild_index(); nothing otherwise
startup_event ==
    \E at \in 0..Len(ALL_INDICES), unmade \in Unmade :
        rebuilt("startup_event", rebuild_index_result(NoCache.memo, at, unmade))

\* What the engine holds after cards were indexed, notes saved and files
\* uploaded for the company c1 and the person p1
InitStored ==
    /\ esUp \in BOOLEAN
    /\ exists = {ALL_INDICES[i] : i \in DOMAIN ALL_INDICES}
    /\ companies = ("c1" :> card_doc([id |-> "c1", name |-> "Acme"], "company"))
    /\ persons = ("p1" :> card_doc([id |-> "p1", name |-> "Ann"], "person"))
    /\ notes = (note_id("c1") :> note_doc("c1", <<"a">>, "company",
                                          [given |-> TRUE, name |-> "Acme"]))
               @@ (note_id("p1") :> note_doc("p1", <<"a">>, "person",
                                             [given |-> TRUE, name |-> "Ann"]))
    /\ documents = (chunk_id("c1", "a.pdf", 0) :> chunk_doc("c1", "a.pdf", 0, TextChunk, 2))
                   @@ (chunk_id("c1", "a.pdf", 1) :> chunk_doc("c1", "a.pdf", 1, TextChunk, 2))
                   @@ (chunk_id("p1", "a.pdf", 0) :> chunk_doc("p1", "a.pdf", 0, TextChunk, 1))
    /\ idx = NoCall
    /\ hs = NoCall
    /\ sr = NoCall
    /\ chat = NoChat
    /\ upload = NoUpload
    /\ cache = NoCache

NextStored ==
    \/ EngineToggle
    \/ rebuild_index
    \/ startup_event
    \/ save_note
    \/ delete_card_from_index

SpecStored == InitStored /\ [][NextStored]_vars

\* rebuild_index ran, at a restart or on request, and went through
Rebuilt(call) == call.called /\ call.op \in {"rebuild_index", "startup_event"} /\ call.ret

\* the hit lists the engine may answer with from a store of chunks
StoredHits(store) ==
    {<<>>} \cup {<<[id |-> k, card_id |-> store[k].card_id, score |-> 1]>> : k \in DOMAIN store}

\* C25: once rebuild_index has gone through, the notes and the documents are
\* empty whatever was saved before: get_note returns the empty string for
\* every card and hybrid_search returns no result, while the companies and
\* the persons of the data files are indexed again.
C25_RebuildDropsNotesAndDocuments ==
    Rebuilt(idx) =>
        /\ notes = <<>>
        /\ documents = <<>>
        /\ \A card_id \in RequestIds : get_note_result(card_id, "none") = <<>>
        /\ \A answer \in EsSearch(INDEX_DOCUMENTS, StoredHits(documents)),
              limit \in 1..MaxLimit :
                hybrid_search_result(answer, limit) = <<>>

\* C25's case: the company c1 had a note and chunks, rebuild_index went
\* through, and the cards of the data files are back while the note is gone.
C25_Witness ==
    /\ Rebuilt(idx)
    /\ idx.before # <<>>
    /\ "c1" \in DOMAIN companies
    /\ "p1" \in DOMAIN persons
    /\ check_elasticsearch_connection
    /\ get_note_result("c1", "none") = <<>>

\* a call of delete_card_from_index that returned True
Deleted(call) == call.called /\ call.op = "delete_card_from_index" /\ call.ret

\* a store keeps every document that is neither the one with the id nor of
\* the card, and gains none
Kept(before, after, card_id) ==
    /\ DOMAIN after \subseteq DOMAIN before
    /\ \A k \in DOMAIN before :
          (k # card_id /\ before[k].card_id # card_id) =>
              k \in DOMAIN after /\ after[k] = before[k]

\* the store card_type names
StoreOf(card_type) ==
    CASE card_type = "company" -> companies
      [] card_type = "person" -> persons
      [] card_type = "note" -> notes
      [] OTHER -> <<>>

\* C26: delete_card_from_index(card_id, card_type), when it returns True, has
\* removed the document with that id from the collection card_type names and
\* every chunk whose card_id equals it; whatever it returns, it leaves
\* unchanged every entity, note and chunk that belongs to a different card_id.
C26_DeleteTouchesOneCard ==
    /\ [](Deleted(idx) =>
            /\ idx.arg \notin DOMAIN StoreOf(idx.note[1])
            /\ \A k \in DOMAIN documents : documents[k].card_id # idx.arg)
    /\ [][(idx'.called /\ idx'.op = "delete_card_from_index") =>
            /\ Kept(companies, companies', idx'.arg)
            /\ Kept(persons, persons', idx'.arg)
            /\ Kept(notes, notes', idx'.arg)
            /\ Kept(documents, documents', idx'.arg)]_vars

\* C26's case: the company c1 and its two chunks were deleted; the person p1,
\* its chunk and its note are still there.
C26_Witness ==
    /\ Deleted(idx)
    /\ idx.arg = "c1"
    /\ idx.note = <<"company">>
    /\ companies = <<>>
    /\ "p1" \in DOMAIN persons
    /\ note_id("p1") \in DOMAIN notes
    /\ DOMAIN documents = {chunk_id("p1", "a.pdf", 0)}

============================================================================
